---- MODULE Spec2Model ----
(***************************************************************************)
(* Model of src/app.py: the DRIP calculator view and its CSV and PDF       *)
(* exports, with the yfinance data helper they share.                      *)
(*                                                                         *)
(* Numbers.  Python floats are modelled as exact rationals <<n, d>> with   *)
(* d > 0 and gcd(n, d) = 1, so that an equality of two computations is an  *)
(* equality of real numbers and not of roundings.  None is <<>>.  A Python *)
(* complex (the result of a negative float raised to a fractional power)   *)
(* is the marker COMPLEX: it propagates through arithmetic and an ordering *)
(* comparison with it raises TypeError.                                    *)
(*                                                                         *)
(* Strings are tuples of one-character strings, so that strip(), upper()   *)
(* and capitalize() are computed character by character.                   *)
(***************************************************************************)
EXTENDS Integers, Sequences, FiniteSets, TLC

\* ------------------------------------------------------------ bounds

\* Longest simulated investment duration (form field investment_years).
MaxYears == 2
\* Longest ticker list of one request.
MaxTickers == 2
\* Largest total growth (1 + rate)^years of an input: keeps every value
\* inside TLC's 32-bit integers.
MaxFactor == 65536

\* Symbols the dashboard follows.
MaxSymbols == 2

\* Fixed-point units per 1 of the enclosures of floats.
Scale == 50000

\* ------------------------------------------------------------ numbers

NONE == <<>>
COMPLEX == <<1, 0>>

Abs(a) == IF a < 0 THEN 0 - a ELSE a

RECURSIVE GCD(_, _)
GCD(a, b) == IF b = 0 THEN a ELSE GCD(b, a % b)

\* The rational n/d in lowest terms, d > 0.
Rat(n, d) ==
    LET g == GCD(Abs(n), Abs(d))
        s == IF d < 0 THEN 0 - 1 ELSE 1
    IN  <<s * (n \div g), s * (d \div g)>>

Num(n) == <<n, 1>>
ZERO == <<0, 1>>
ONE == <<1, 1>>

IsNone(x) == x = NONE
IsComplex(x) == x = COMPLEX
IsReal(x) == Len(x) = 2 /\ x[2] > 0

RMul(x, y) ==
    IF x[1] = 0 \/ y[1] = 0 THEN ZERO
    ELSE LET g1 == GCD(Abs(x[1]), y[2])
             g2 == GCD(Abs(y[1]), x[2])
         IN  <<(x[1] \div g1) * (y[1] \div g2), (x[2] \div g2) * (y[2] \div g1)>>

RAdd(x, y) ==
    LET g == GCD(x[2], y[2])
    IN  Rat(x[1] * (y[2] \div g) + y[1] * (x[2] \div g), (x[2] \div g) * y[2])

RNeg(x) == <<0 - x[1], x[2]>>
RInv(x) == IF x[1] < 0 THEN <<0 - x[2], 0 - x[1]>> ELSE <<x[2], x[1]>>

\* Python float arithmetic; a complex operand makes the result complex.
Add(x, y) == IF IsComplex(x) \/ IsComplex(y) THEN COMPLEX ELSE RAdd(x, y)
Sub(x, y) == IF IsComplex(x) \/ IsComplex(y) THEN COMPLEX ELSE RAdd(x, RNeg(y))
Mul(x, y) == IF IsComplex(x) \/ IsComplex(y) THEN COMPLEX ELSE RMul(x, y)
\* x / y for y /= 0 (the callers model ZeroDivisionError themselves).
Div(x, y) == IF IsComplex(x) \/ IsComplex(y) THEN COMPLEX ELSE RMul(x, RInv(y))

\* Ordering of two real values: the sign of their difference.
Lt(x, y) == RAdd(x, RNeg(y))[1] < 0
Le(x, y) == RAdd(x, RNeg(y))[1] <= 0
Gt(x, y) == Lt(y, x)
Ge(x, y) == Le(y, x)
IsZero(x) == IsReal(x) /\ x[1] = 0
Positive(x) == IsReal(x) /\ x[1] > 0

\* x ** k for an int k >= 0.
RECURSIVE Pow(_, _)
Pow(x, k) ==
    IF IsComplex(x) THEN COMPLEX
    ELSE IF k = 0 THEN ONE ELSE Mul(x, Pow(x, k - 1))

\* r^n, or cap + 1 as soon as it exceeds cap.
RECURSIVE PowCap(_, _, _)
PowCap(r, n, cap) ==
    IF n = 0 THEN 1
    ELSE LET p == PowCap(r, n - 1, cap)
         IN  IF p > cap THEN cap + 1
             ELSE IF r > 0 /\ p > cap \div r THEN cap + 1
             ELSE p * r

HasIRoot(m, n) == \E r \in 0..m : PowCap(r, n, m) = m
IRoot(m, n) == CHOOSE r \in 0..m : PowCap(r, n, m) = m

\* Whether the real n-th root of x >= 0 is rational.
HasRoot(x, n) == HasIRoot(x[1], n) /\ HasIRoot(x[2], n)
Root(x, n) == <<IRoot(x[1], n), IRoot(x[2], n)>>

\* x ** (1/n) for an int n >= 1: 1/n is a float, x ** 1.0 is x, and a
\* negative x to a fractional power is a complex number.
PowFrac(x, n) ==
    IF IsComplex(x) THEN COMPLEX
    ELSE IF n = 1 THEN x
    ELSE IF x[1] < 0 THEN COMPLEX
    ELSE Root(x, n)

\* The inputs of PowFrac for which the model computes it exactly.
ExactPowFrac(x, n) == n = 1 \/ x[1] < 0 \/ HasRoot(x, n)

\* round(x, 2) and the ".2f" formats: x to the nearest hundredth, ties to
\* even.
Round2(x) ==
    IF IsComplex(x) THEN COMPLEX
    ELSE LET whole == x[1] \div x[2]
             rest == (x[1] % x[2]) * 100
             q == rest \div x[2]
             r == rest % x[2]
             up == IF 2 * r > x[2] THEN 1
                   ELSE IF 2 * r = x[2] /\ q % 2 = 1 THEN 1 ELSE 0
         IN  Rat(whole * 100 + q + up, 100)

\* ------------------------------------------------------------ strings

UpperOf(c) ==
    CASE c = "a" -> "A" [] c = "e" -> "E" [] c = "i" -> "I" [] c = "k" -> "K"
      [] c = "l" -> "L" [] c = "m" -> "M" [] c = "n" -> "N" [] c = "o" -> "O"
      [] c = "q" -> "Q" [] c = "r" -> "R" [] c = "t" -> "T" [] c = "u" -> "U"
      [] c = "y" -> "Y" [] c = "g" -> "G" [] c = "p" -> "P" [] c = "s" -> "S"
      [] c = "h" -> "H" [] c = "w" -> "W" [] c = "x" -> "X" [] c = "z" -> "Z"
      [] OTHER -> c
LowerOf(c) ==
    CASE c = "A" -> "a" [] c = "E" -> "e" [] c = "I" -> "i" [] c = "K" -> "k"
      [] c = "L" -> "l" [] c = "M" -> "m" [] c = "N" -> "n" [] c = "O" -> "o"
      [] c = "Q" -> "q" [] c = "R" -> "r" [] c = "T" -> "t" [] c = "U" -> "u"
      [] c = "Y" -> "y" [] c = "G" -> "g" [] c = "P" -> "p" [] c = "S" -> "s"
      [] c = "H" -> "h" [] c = "W" -> "w" [] c = "X" -> "x" [] c = "Z" -> "z"
      [] OTHER -> c

\* str.upper()
Upper(s) == [k \in 1..Len(s) |-> UpperOf(s[k])]
\* str.capitalize(): first character upper-cased, the rest lower-cased.
Capitalize(s) == [k \in 1..Len(s) |-> IF k = 1 THEN UpperOf(s[k]) ELSE LowerOf(s[k])]

RECURSIVE LStrip(_)
LStrip(s) == IF s /= <<>> /\ Head(s) = " " THEN LStrip(Tail(s)) ELSE s
RECURSIVE RStrip(_)
RStrip(s) ==
    IF s /= <<>> /\ s[Len(s)] = " " THEN RStrip(SubSeq(s, 1, Len(s) - 1)) ELSE s
\* str.strip()
Strip(s) == RStrip(LStrip(s))

\* ------------------------------------------------------------ market data

\* dict.get(key): the value, or None when the key is absent.
Get(d, key) == IF key \in DOMAIN d THEN d[key] ELSE NONE
\* Truth value of a number or None.
Truthy(x) == ~IsNone(x) /\ ~IsZero(x)

KO == <<"K", "O">>
PG == <<"P", "G">>
T == <<"T">>
HD == <<"H", "D">>
GOOG == <<"G", "O", "O", "G">>
NOPX == <<"N", "O", "P", "X">>
ZZZ == <<"Z", "Z", "Z">>
ERR == <<"E", "R", "R">>
NEG == <<"N", "E", "G">>
NIL == <<"N", "I", "L">>

\* What yfinance answers for a symbol: whether the lookup raises, the info
\* dict, and the dividend series of the last five years as (year, amount)
\* payments.  The rows cover complete data, data reachable only through a
\* secondary field, and each kind of missing data.
Market(symbol) ==
    CASE symbol = KO ->
           [raises |-> FALSE,
            info |-> [currentPrice |-> Num(2), dividendYield |-> Rat(1, 2),
                      dividendRate |-> Num(1)],
            dividends |-> <<<<2024, Num(1)>>, <<2025, Rat(1, 2)>>, <<2025, Rat(1, 2)>> >>]
      [] symbol = PG ->
           [raises |-> FALSE,
            info |-> [currentPrice |-> Num(2), dividendRate |-> Num(1)],
            dividends |-> <<<<2024, Num(1)>>, <<2025, Num(2)>>, <<2025, Num(2)>> >>]
      [] symbol = T ->
           [raises |-> FALSE,
            info |-> [currentPrice |-> Num(1), forwardAnnualDividendYield |-> Num(1)],
            dividends |-> <<<<2023, Num(1)>>, <<2024, Num(3)>>, <<2025, Num(16)>> >>]
      [] symbol = HD ->
           [raises |-> FALSE,
            info |-> [currentPrice |-> Num(4), dividendYield |-> Rat(1, 4)],
            dividends |-> <<<<2024, Num(1)>>, <<2025, Num(4096)>> >>]
      [] symbol = GOOG ->
           [raises |-> FALSE,
            info |-> [currentPrice |-> Num(3)],
            dividends |-> << >>]
      [] symbol = NIL ->
           [raises |-> FALSE,
            info |-> [currentPrice |-> Num(0), dividendYield |-> Rat(1, 2)],
            dividends |-> <<<<2025, Num(1)>> >>]
      [] symbol = NEG ->
           [raises |-> FALSE,
            info |-> [currentPrice |-> Num(0 - 2), dividendYield |-> Rat(1, 2)],
            dividends |-> <<<<2024, Num(0)>>, <<2025, Num(1)>> >>]
      [] symbol = NOPX ->
           [raises |-> FALSE,
            info |-> [dividendYield |-> Rat(1, 2), dividendRate |-> Num(1)],
            dividends |-> << >>]
      [] symbol = ERR ->
           [raises |-> TRUE, info |-> << >>, dividends |-> << >>]
      [] OTHER ->
           [raises |-> FALSE, info |-> << >>, dividends |-> << >>]

\* annual_dividends_by_year[year]: the payments of a year summed.
RECURSIVE YearTotal(_, _)
YearTotal(series, year) ==
    IF series = << >> THEN ZERO
    ELSE LET rest == YearTotal(Tail(series), year)
         IN  IF Head(series)[1] = year THEN Add(Head(series)[2], rest) ELSE rest

Min(S) == CHOOSE x \in S : \A y \in S : x <= y
Max(S) == CHOOSE x \in S : \A y \in S : y <= x

\* The five-year compound annual growth rate of the dividends, 0.0 when it
\* cannot be computed.
DividendGrowthRate(series) ==
    LET years == {series[k][1] : k \in 1..Len(series)}
    IN  IF Cardinality(years) >= 2
        THEN LET first_year_div == YearTotal(series, Min(years))
                 last_year_div == YearTotal(series, Max(years))
                 num_years == Max(years) - Min(years)
             IN  IF Positive(first_year_div) /\ num_years > 0
                 THEN Sub(PowFrac(Div(last_year_div, first_year_div), num_years), ONE)
                 ELSE ZERO
        ELSE ZERO

\* The dividend yield: info['dividendYield'], else the forward yield, else
\* dividendRate / currentPrice, else None.
DividendYield(info, current_price) ==
    LET y1 == Get(info, "dividendYield")
        y2 == IF IsNone(y1) THEN Get(info, "forwardAnnualDividendYield") ELSE y1
    IN  IF IsNone(y2) /\ Truthy(Get(info, "dividendRate")) /\ Truthy(current_price)
        THEN Div(info["dividendRate"], current_price)
        ELSE y2

\* round(x * 100, 2) if x is not None else 0.0
PercentOrZero(x) == IF ~IsNone(x) THEN Round2(Mul(x, Num(100))) ELSE ZERO

get_drip_stock_data(ticker_symbol) ==
    LET m == Market(ticker_symbol)
        info == m.info
        current_price == Get(info, "currentPrice")
        dividend_yield == DividendYield(info, current_price)
        dividend_growth_rate == DividendGrowthRate(m.dividends)
    IN  IF m.raises \/ IsComplex(dividend_growth_rate)
        THEN [error |-> <<"Failed to fetch data for", ticker_symbol>>,
              lastUpdated |-> "now"]
        ELSE IF DOMAIN info = {}
        THEN [error |-> <<"No information found for ticker", ticker_symbol>>]
        ELSE IF IsNone(current_price)
        THEN [error |-> <<"Current price data not available for", ticker_symbol>>]
        ELSE [ticker |-> ticker_symbol,
              currentPrice |-> current_price,
              dividendYield |-> PercentOrZero(dividend_yield),
              annualDividendGrowthRate |-> PercentOrZero(dividend_growth_rate),
              lastUpdated |-> "now"]

\* ------------------------------------------------------------ requests

ANNUAL == <<"A", "n", "n", "u", "a", "l">>
SEMI_ANNUAL == <<"S", "e", "m", "i", "-", "A", "n", "n", "u", "a", "l">>
QUARTERLY == <<"Q", "u", "a", "r", "t", "e", "r", "l", "y">>
MONTHLY == <<"M", "o", "n", "t", "h", "l", "y">>
WEEKLY == <<"W", "e", "e", "k", "l", "y">>
LOWER_QUARTERLY == <<"q", "u", "a", "r", "t", "e", "r", "l", "y">>

\* {'Annual': 1, 'Semi-Annual': 2, 'Quarterly': 4, 'Monthly': 12}.get(key, 1)
PayoutsDict(key) ==
    CASE key = ANNUAL -> 1
      [] key = SEMI_ANNUAL -> 2
      [] key = QUARTERLY -> 4
      [] key = MONTHLY -> 12
      [] OTHER -> 1

\* x if x is not None else y
OrElse(x, y) == IF ~IsNone(x) THEN x ELSE y

\* The fraction of a percentage: p / 100
Percent(p) == Div(p, Num(100))

\* ','.join(tickers): the hidden ticker field of the export forms.
RECURSIVE JoinComma(_)
JoinComma(list) ==
    IF list = << >> THEN << >>
    ELSE IF Len(list) = 1 THEN list[1]
    ELSE list[1] \o <<",">> \o JoinComma(Tail(list))

\* str.split(','): the pieces between the commas, empty pieces included.
RECURSIVE SplitFrom(_, _)
SplitFrom(s, piece) ==
    IF s = << >> THEN <<piece>>
    ELSE IF Head(s) = "," THEN <<piece>> \o SplitFrom(Tail(s), << >>)
    ELSE SplitFrom(Tail(s), Append(piece, Head(s)))
SplitComma(s) == SplitFrom(s, << >>)

RECURSIVE KeepNonBlank(_)
KeepNonBlank(pieces) ==
    IF pieces = << >> THEN << >>
    ELSE IF Strip(Head(pieces)) /= << >>
         THEN <<Upper(Strip(Head(pieces)))>> \o KeepNonBlank(Tail(pieces))
         ELSE KeepNonBlank(Tail(pieces))
\* [t.strip().upper() for t in tickers_str.split(',') if t.strip()]
ExportTickers(tickers_str) == KeepNonBlank(SplitComma(tickers_str))

\* ------------------------------------------------------------ state

VARIABLES
    form,       \* the submitted form fields (the export forms carry the same values)
    handler,    \* the view function running: calculator, export_csv, export_pdf
    pc,         \* its position
    tickers,    \* the ticker list it iterates
    idx,        \* index of the next ticker of that list
    tk,         \* the resolved inputs of the current ticker
    sim,        \* the running simulation state of the current ticker
    yr,         \* the locals of the current year and payout period
    yearly_breakdown,   \* the year records of the current ticker
    portfolio_values_with_drip_chart,
    shares_owned_with_drip_chart,
    final,      \* the post-loop values of the last simulated ticker (calculator)
    results,    \* calculator: results; export_csv: all_data_for_export; export_pdf: story
    comparison_data_for_table,
    out,        \* the response of each view function
    history,    \* the calculator requests served so far: form, resolved inputs, finals, page
    latest_stock_data,  \* the dashboard's quote cache: its entries in insertion order
    data_lock,          \* the threads holding data_lock
    updater_thread,     \* the background updater: position, symbol index, locals, last print
    api_stocks          \* the running api_stocks calls: position and the body built so far

vars == <<form, handler, pc, tickers, idx, tk, sim, yr, yearly_breakdown,
          portfolio_values_with_drip_chart, shares_owned_with_drip_chart, final,
          results, comparison_data_for_table, out, history,
          latest_stock_data, data_lock, updater_thread, api_stocks>>

\* The dashboard's shared state and threads.
dashboard == <<latest_stock_data, data_lock, updater_thread, api_stocks>>

locals == <<tk, sim, yr, yearly_breakdown, portfolio_values_with_drip_chart,
            shares_owned_with_drip_chart, final>>

Handlers == <<"calculator", "export_csv", "export_pdf">>

BlankTk == [ticker_symbol |-> << >>, current_price_calc |-> ZERO,
            div_yield_decimal_calc |-> ZERO, div_growth_decimal_calc |-> ZERO,
            stock_price_growth_decimal_calc |-> ZERO,
            annual_dividend_per_share_start |-> ZERO]

BlankSim == [year_iter |-> 0, current_shares_drip |-> ZERO, current_shares_no_drip |-> ZERO,
             current_stock_price_sim |-> ZERO, annual_dividend_per_share_sim |-> ZERO,
             total_dividends_reinvested_drip |-> ZERO,
             total_dividends_received_no_drip |-> ZERO]

BlankYr == [year |-> 0, i |-> 0, number_of_payouts |-> 0,
            shares_at_start_of_year_drip |-> ZERO,
            shares_at_start_of_year_no_drip |-> ZERO,
            stock_price_at_start_of_year |-> ZERO,
            annual_dividend_per_share_at_start_of_year |-> ZERO,
            dividends_received_this_year_drip |-> ZERO,
            reinvested_shares_this_year_drip |-> ZERO,
            dividends_received_this_year_no_drip |-> ZERO,
            period_stock_price_growth_rate |-> ZERO,
            period_dividend_growth_rate |-> ZERO,
            current_stock_price_for_reinvestment |-> ZERO,
            current_dividend_per_share_for_period |-> ZERO,
            dividends_received_this_period_drip |-> ZERO,
            shares_bought_this_period |-> ZERO,
            portfolio_value_end_of_year_drip |-> ZERO,
            portfolio_value_end_of_year_no_drip |-> ZERO]

BlankFinal == [final_investment_value_with_drip |-> ZERO,
               final_shares_with_drip |-> ZERO, final_shares_no_drip |-> ZERO,
               final_value_no_drip |-> ZERO, yield_on_cost |-> ZERO]

NoResponse == [status |-> "none"]

\* A fresh call frame: the locals of a view function before its first line.
FreshFrame ==
    /\ tk' = BlankTk
    /\ sim' = BlankSim
    /\ yr' = BlankYr
    /\ yearly_breakdown' = << >>
    /\ portfolio_values_with_drip_chart' = << >>
    /\ shares_owned_with_drip_chart' = << >>
    /\ final' = BlankFinal
    /\ tickers' = << >>
    /\ idx' = 0
    /\ results' = << >>
    /\ comparison_data_for_table' = << >>

\* The view function that runs after h: the page is computed, then exported
\* as CSV, then as PDF.
NextHandler(h) ==
    CASE h = "calculator" -> "export_csv"
      [] h = "export_csv" -> "export_pdf"
      [] OTHER -> "none"

\* The view function returns `response`; the next request starts in a fresh
\* frame.
Return(response) ==
    /\ out' = [out EXCEPT ![handler] = response]
    /\ history' = IF handler = "calculator"
                  THEN Append(history, [form |-> form, tk |-> tk, final |-> final,
                                        response |-> response])
                  ELSE history
    /\ handler' = NextHandler(handler)
    /\ pc' = IF NextHandler(handler) = "none" THEN "idle" ELSE "begin"
    /\ FreshFrame
    /\ UNCHANGED <<form, dashboard>>

\* ------------------------------------------------------------ the engine's formulas

\* not x, for a number or None
Falsy(x) == IsNone(x) \/ IsZero(x)

\* (1 + annual) ** (1/number_of_payouts) - 1
PeriodRate(annual, number_of_payouts) ==
    Sub(PowFrac(Add(ONE, annual), number_of_payouts), ONE)

\* start * ((1 + period_rate) ** i)
Compounded(start, period_rate, i) == Mul(start, Pow(Add(ONE, period_rate), i))

\* The shares taken off the count instead of added to it.
SharesSold(dividends, price) ==
    IF Positive(price) THEN Div(Sub(ZERO, dividends), price) ELSE ZERO

\* shares_bought_this_period: 0 unless the reinvestment price is positive.
SharesBought(dividends, price) ==
    IF Positive(price) THEN Div(dividends, price) ELSE ZERO

\* The growth applied a second time.
GrownTwice(value, growth) == Mul(Mul(value, Add(ONE, growth)), Add(ONE, growth))
\* value * (1 + growth): the end-of-year update of price and dividend.
Grown(value, growth) == Mul(value, Add(ONE, growth))

\* The f"{x:,.2f}" display formats.
Fmt(x) == Round2(x)

\* The duration of `range(1, investment_years)`.
YearsExclusive(f) == f.investment_years[1] - 1

\* The investment duration as an int.
Years(f) == f.investment_years[1]

\* ------------------------------------------------------------ calculator

\* The validation with `dividend_yield is None` alone as the yield check.
ValidationErrorsAnyYield(f) ==
    LET checks == <<
          <<Falsy(f.initial_investment) \/ Le(f.initial_investment, ZERO),
            "Please provide a positive initial investment.">>,
          <<Falsy(f.investment_years) \/ Le(f.investment_years, ZERO),
            "Please provide a positive investment duration.">>,
          <<f.tickers = << >>,
            "Please select at least one ticker symbol.">>,
          <<Falsy(f.initial_share_price) \/ Le(f.initial_share_price, ZERO),
            "Please provide a positive initial share price.">>,
          <<IsNone(f.dividend_yield),
            "Please provide a non-negative dividend yield.">>,
          <<IsNone(f.annual_dividend_growth_rate),
            "Please provide an annual dividend growth rate.">>,
          <<IsNone(f.annual_stock_price_growth_rate),
            "Please provide an annual stock price growth rate.">>,
          <<f.payout_frequency = << >>,
            "Please select a dividend payout frequency.">> >>
        failed == SelectSeq(checks, LAMBDA c : c[1])
    IN  [k \in 1..Len(failed) |-> [error |-> <<failed[k][2]>>]]

\* The error entries of the input validation, in the order of the checks.
ValidationErrors(f) ==
    LET checks == <<
          <<Falsy(f.initial_investment) \/ Le(f.initial_investment, ZERO),
            "Please provide a positive initial investment.">>,
          <<Falsy(f.investment_years) \/ Le(f.investment_years, ZERO),
            "Please provide a positive investment duration.">>,
          <<f.tickers = << >>,
            "Please select at least one ticker symbol.">>,
          <<Falsy(f.initial_share_price) \/ Le(f.initial_share_price, ZERO),
            "Please provide a positive initial share price.">>,
          <<IsNone(f.dividend_yield) \/ Lt(f.dividend_yield, ZERO),
            "Please provide a non-negative dividend yield.">>,
          <<IsNone(f.annual_dividend_growth_rate),
            "Please provide an annual dividend growth rate.">>,
          <<IsNone(f.annual_stock_price_growth_rate),
            "Please provide an annual stock price growth rate.">>,
          <<f.payout_frequency = << >>,
            "Please select a dividend payout frequency.">> >>
        failed == SelectSeq(checks, LAMBDA c : c[1])
    IN  [k \in 1..Len(failed) |-> [error |-> <<failed[k][2]>>]]

\* POST /calculator up to the ticker loop: the form is read and validated.
calculator_begin ==
    /\ handler = "calculator" /\ pc = "begin"
    /\ results' = ValidationErrors(form)
    /\ IF results' = << >>
       THEN /\ pc' = "ticker"
            /\ tickers' = form.tickers
            /\ idx' = 1
       ELSE /\ pc' = "respond"
            /\ UNCHANGED <<tickers, idx>>
    /\ comparison_data_for_table' = << >>
    /\ UNCHANGED <<form, handler, locals, out, history, dashboard>>

\* The resolved inputs of a ticker: fetched data if available, otherwise the
\* form's values.
Resolved(ticker_symbol, drip_data, f) ==
    LET current_price_calc == OrElse(drip_data.currentPrice, f.initial_share_price)
        div_yield_decimal_calc ==
            IF ~IsNone(drip_data.dividendYield)
            THEN Percent(drip_data.dividendYield)
            ELSE Percent(f.dividend_yield)
    IN  [ticker_symbol |-> ticker_symbol,
         current_price_calc |-> current_price_calc,
         div_yield_decimal_calc |-> div_yield_decimal_calc,
         div_growth_decimal_calc |->
             IF ~IsNone(drip_data.annualDividendGrowthRate)
             THEN Percent(drip_data.annualDividendGrowthRate)
             ELSE Percent(f.annual_dividend_growth_rate),
         stock_price_growth_decimal_calc |-> Percent(f.annual_stock_price_growth_rate),
         annual_dividend_per_share_start |->
             Mul(current_price_calc, div_yield_decimal_calc)]

\* Chart series without the point of year 0.
ChartStartEmpty(initial_investment, current_price_calc) ==
    [portfolio |-> << >>, shares |-> << >>]

\* The chart series as initialised before the year loop: one point for
\* year 0, the investment and the shares it buys at the effective price.
ChartStart(initial_investment, current_price_calc) ==
    [portfolio |-> <<[x |-> 0, y |-> initial_investment]>>,
     shares |-> <<[x |-> 0, y |-> Div(initial_investment, current_price_calc)]>>]

\* One pass of `for ticker_symbol in selected_tickers` up to the year loop:
\* the data is fetched, the inputs are resolved and the simulation state is
\* initialized, unless the ticker is blank, fails or pays no dividend.
calculator_ticker ==
    /\ handler = "calculator" /\ pc = "ticker" /\ idx <= Len(tickers)
    /\ LET ticker_symbol == Upper(Strip(tickers[idx]))
           drip_data == get_drip_stock_data(ticker_symbol)
           r == Resolved(ticker_symbol, drip_data, form)
       IN  IF ticker_symbol = << >>
           THEN /\ idx' = idx + 1
                /\ UNCHANGED <<pc, locals, results>>
           ELSE IF "error" \in DOMAIN drip_data
           THEN /\ results' = Append(results,
                       [ticker |-> ticker_symbol, error |-> drip_data.error])
                /\ idx' = idx + 1
                /\ UNCHANGED <<pc, locals>>
           ELSE IF IsZero(r.annual_dividend_per_share_start)
           THEN /\ results' = Append(results,
                       [ticker |-> ticker_symbol,
                        current_price |-> Fmt(r.current_price_calc),
                        error |-> <<"does not currently pay dividends", ticker_symbol>>])
                /\ tk' = r
                /\ idx' = idx + 1
                /\ UNCHANGED <<pc, sim, yr, yearly_breakdown, final,
                               portfolio_values_with_drip_chart,
                               shares_owned_with_drip_chart>>
           ELSE /\ tk' = r
                /\ sim' = [year_iter |-> 1,
                           current_shares_drip |->
                               Div(form.initial_investment, r.current_price_calc),
                           current_shares_no_drip |->
                               Div(form.initial_investment, r.current_price_calc),
                           current_stock_price_sim |-> r.current_price_calc,
                           annual_dividend_per_share_sim |->
                               r.annual_dividend_per_share_start,
                           total_dividends_reinvested_drip |-> ZERO,
                           total_dividends_received_no_drip |-> ZERO]
                /\ yearly_breakdown' = << >>
                /\ portfolio_values_with_drip_chart' =
                       ChartStart(form.initial_investment, r.current_price_calc).portfolio
                /\ shares_owned_with_drip_chart' =
                       ChartStart(form.initial_investment, r.current_price_calc).shares
                /\ pc' = "year"
                /\ UNCHANGED <<idx, yr, final, results>>
    /\ UNCHANGED <<form, handler, tickers, comparison_data_for_table, out, history, dashboard>>

\* The year's head entering the payout loop whether or not DRIP is enabled.
calculator_year_reinvesting ==
    /\ handler = "calculator" /\ pc = "year" /\ sim.year_iter <= Years(form)
    /\ LET number_of_payouts == PayoutsDict(form.payout_frequency)
           dividends_received_this_year_no_drip ==
               Mul(sim.current_shares_no_drip, sim.annual_dividend_per_share_sim)
       IN  /\ yr' = [yr EXCEPT
                  !.year = sim.year_iter,
                  !.shares_at_start_of_year_drip = sim.current_shares_drip,
                  !.shares_at_start_of_year_no_drip = sim.current_shares_no_drip,
                  !.stock_price_at_start_of_year = sim.current_stock_price_sim,
                  !.annual_dividend_per_share_at_start_of_year =
                      sim.annual_dividend_per_share_sim,
                  !.dividends_received_this_year_drip = ZERO,
                  !.reinvested_shares_this_year_drip = ZERO,
                  !.dividends_received_this_year_no_drip =
                      dividends_received_this_year_no_drip,
                  !.number_of_payouts = number_of_payouts,
                  !.period_stock_price_growth_rate =
                      PeriodRate(tk.stock_price_growth_decimal_calc, number_of_payouts),
                  !.period_dividend_growth_rate =
                      PeriodRate(tk.div_growth_decimal_calc, number_of_payouts),
                  !.i = 0]
           /\ sim' = [sim EXCEPT
                  !.year_iter = @ + 1,
                  !.total_dividends_received_no_drip =
                      Add(@, dividends_received_this_year_no_drip)]
    /\ pc' = "payout"
    /\ UNCHANGED <<form, handler, tickers, idx, tk, yearly_breakdown,
                   portfolio_values_with_drip_chart, shares_owned_with_drip_chart,
                   final, results, comparison_data_for_table, out, history, dashboard>>
\* The head of `for year in range(1, investment_years + 1)`: the start-of-year
\* snapshot, the no-DRIP dividends, the number of payouts, the period rates.
calculator_year ==
    /\ handler = "calculator" /\ pc = "year" /\ sim.year_iter <= Years(form)
    /\ LET number_of_payouts == PayoutsDict(form.payout_frequency)
           dividends_received_this_year_no_drip ==
               Mul(sim.current_shares_no_drip, sim.annual_dividend_per_share_sim)
       IN  /\ yr' = [yr EXCEPT
                  !.year = sim.year_iter,
                  !.shares_at_start_of_year_drip = sim.current_shares_drip,
                  !.shares_at_start_of_year_no_drip = sim.current_shares_no_drip,
                  !.stock_price_at_start_of_year = sim.current_stock_price_sim,
                  !.annual_dividend_per_share_at_start_of_year =
                      sim.annual_dividend_per_share_sim,
                  !.dividends_received_this_year_drip = ZERO,
                  !.reinvested_shares_this_year_drip = ZERO,
                  !.dividends_received_this_year_no_drip =
                      dividends_received_this_year_no_drip,
                  !.number_of_payouts = number_of_payouts,
                  !.period_stock_price_growth_rate =
                      PeriodRate(tk.stock_price_growth_decimal_calc, number_of_payouts),
                  !.period_dividend_growth_rate =
                      PeriodRate(tk.div_growth_decimal_calc, number_of_payouts),
                  !.i = 0]
           /\ sim' = [sim EXCEPT
                  !.year_iter = @ + 1,
                  !.total_dividends_received_no_drip =
                      Add(@, dividends_received_this_year_no_drip)]
    /\ pc' = IF form.drip_enabled = "yes" THEN "payout" ELSE "yearend"
    /\ UNCHANGED <<form, handler, tickers, idx, tk, yearly_breakdown,
                   portfolio_values_with_drip_chart, shares_owned_with_drip_chart,
                   final, results, comparison_data_for_table, out, history, dashboard>>

\* A payout period that moves the start-of-year share count along with the
\* running count.
calculator_payout_moving_start ==
    /\ handler = "calculator" /\ pc = "payout"
    /\ LET current_stock_price_for_reinvestment ==
               Compounded(yr.stock_price_at_start_of_year,
                          yr.period_stock_price_growth_rate, yr.i)
           current_dividend_per_share_for_period ==
               Compounded(Div(yr.annual_dividend_per_share_at_start_of_year,
                              Num(yr.number_of_payouts)),
                          yr.period_dividend_growth_rate, yr.i)
           dividends_received_this_period_drip ==
               Mul(yr.shares_at_start_of_year_drip,
                   current_dividend_per_share_for_period)
           shares_bought_this_period ==
               SharesBought(dividends_received_this_period_drip,
                            current_stock_price_for_reinvestment)
       IN  IF IsComplex(current_stock_price_for_reinvestment)
           THEN Return([status |-> "500"])
           ELSE /\ sim' = [sim EXCEPT
                       !.current_shares_drip = Add(@, shares_bought_this_period)]
                /\ yr' = [yr EXCEPT
                       !.shares_at_start_of_year_drip =
                           Add(sim.current_shares_drip, shares_bought_this_period),
                       !.current_stock_price_for_reinvestment =
                           current_stock_price_for_reinvestment,
                       !.current_dividend_per_share_for_period =
                           current_dividend_per_share_for_period,
                       !.dividends_received_this_period_drip =
                           dividends_received_this_period_drip,
                       !.shares_bought_this_period = shares_bought_this_period,
                       !.dividends_received_this_year_drip =
                           Add(@, dividends_received_this_period_drip),
                       !.reinvested_shares_this_year_drip =
                           Add(@, shares_bought_this_period),
                       !.i = @ + 1]
                /\ pc' = IF yr.i + 1 < yr.number_of_payouts THEN "payout" ELSE "yearend"
                /\ UNCHANGED <<form, handler, tickers, idx, tk, yearly_breakdown,
                               portfolio_values_with_drip_chart,
                               shares_owned_with_drip_chart, final, results,
                               comparison_data_for_table, out, history, dashboard>>
\* One pass of `for i in range(number_of_payouts)` with DRIP enabled.  The
\* comparison of a complex reinvestment price with 0 raises TypeError, which
\* ends the request with a server error.
calculator_payout ==
    /\ handler = "calculator" /\ pc = "payout"
    /\ LET current_stock_price_for_reinvestment ==
               Compounded(yr.stock_price_at_start_of_year,
                          yr.period_stock_price_growth_rate, yr.i)
           current_dividend_per_share_for_period ==
               Compounded(Div(yr.annual_dividend_per_share_at_start_of_year,
                              Num(yr.number_of_payouts)),
                          yr.period_dividend_growth_rate, yr.i)
           dividends_received_this_period_drip ==
               Mul(yr.shares_at_start_of_year_drip,
                   current_dividend_per_share_for_period)
           shares_bought_this_period ==
               SharesBought(dividends_received_this_period_drip,
                            current_stock_price_for_reinvestment)
       IN  IF IsComplex(current_stock_price_for_reinvestment)
           THEN Return([status |-> "500"])
           ELSE /\ sim' = [sim EXCEPT
                       !.current_shares_drip = Add(@, shares_bought_this_period)]
                /\ yr' = [yr EXCEPT
                       !.current_stock_price_for_reinvestment =
                           current_stock_price_for_reinvestment,
                       !.current_dividend_per_share_for_period =
                           current_dividend_per_share_for_period,
                       !.dividends_received_this_period_drip =
                           dividends_received_this_period_drip,
                       !.shares_bought_this_period = shares_bought_this_period,
                       !.dividends_received_this_year_drip =
                           Add(@, dividends_received_this_period_drip),
                       !.reinvested_shares_this_year_drip =
                           Add(@, shares_bought_this_period),
                       !.i = @ + 1]
                /\ pc' = IF yr.i + 1 < yr.number_of_payouts THEN "payout" ELSE "yearend"
                /\ UNCHANGED <<form, handler, tickers, idx, tk, yearly_breakdown,
                               portfolio_values_with_drip_chart,
                               shares_owned_with_drip_chart, final, results,
                               comparison_data_for_table, out, history, dashboard>>

\* (initial_investment / initial_share_price) * price + dividends: the
\* no-DRIP portfolio value.
NoDripValue(f, price, dividends) ==
    Add(Mul(Div(f.initial_investment, f.initial_share_price), price), dividends)

\* The rest of the year: the dividends of the year without DRIP, the
\* end-of-year price and dividend, the portfolio values, the chart points and
\* the year record.
calculator_year_end ==
    /\ handler = "calculator" /\ pc = "yearend"
    /\ LET drip == form.drip_enabled = "yes"
           dividends_received_this_year_drip ==
               IF drip THEN yr.dividends_received_this_year_drip
               ELSE Mul(yr.shares_at_start_of_year_drip,
                        yr.annual_dividend_per_share_at_start_of_year)
           reinvested_shares_this_year_drip ==
               IF drip THEN yr.reinvested_shares_this_year_drip ELSE ZERO
           current_stock_price_sim ==
               Grown(yr.stock_price_at_start_of_year, tk.stock_price_growth_decimal_calc)
           annual_dividend_per_share_sim ==
               Grown(yr.annual_dividend_per_share_at_start_of_year,
                     tk.div_growth_decimal_calc)
           portfolio_value_end_of_year_drip ==
               Mul(sim.current_shares_drip, current_stock_price_sim)
           portfolio_value_end_of_year_no_drip ==
               NoDripValue(form, current_stock_price_sim,
                           sim.total_dividends_received_no_drip)
       IN  /\ sim' = [sim EXCEPT
                  !.total_dividends_reinvested_drip =
                      Add(@, dividends_received_this_year_drip),
                  !.current_stock_price_sim = current_stock_price_sim,
                  !.annual_dividend_per_share_sim = annual_dividend_per_share_sim]
           /\ yr' = [yr EXCEPT
                  !.dividends_received_this_year_drip = dividends_received_this_year_drip,
                  !.reinvested_shares_this_year_drip = reinvested_shares_this_year_drip,
                  !.portfolio_value_end_of_year_drip = portfolio_value_end_of_year_drip,
                  !.portfolio_value_end_of_year_no_drip =
                      portfolio_value_end_of_year_no_drip]
           /\ portfolio_values_with_drip_chart' =
                  Append(portfolio_values_with_drip_chart,
                         [x |-> yr.year, y |-> portfolio_value_end_of_year_drip])
           /\ shares_owned_with_drip_chart' =
                  Append(shares_owned_with_drip_chart,
                         [x |-> yr.year, y |-> sim.current_shares_drip])
           /\ yearly_breakdown' = Append(yearly_breakdown,
                  [Year |-> yr.year,
                   SharesOwnedStart |-> Fmt(yr.shares_at_start_of_year_drip),
                   StockPriceStart |-> Fmt(yr.stock_price_at_start_of_year),
                   AnnualDividendPerShare |->
                       Fmt(yr.annual_dividend_per_share_at_start_of_year),
                   DividendsReceivedYear |-> Fmt(dividends_received_this_year_drip),
                   ReinvestedSharesYear |-> Fmt(reinvested_shares_this_year_drip),
                   SharesOwnedEnd |-> Fmt(sim.current_shares_drip),
                   PortfolioValueEnd |-> Fmt(portfolio_value_end_of_year_drip)])
    /\ pc' = "year"
    /\ UNCHANGED <<form, handler, tickers, idx, tk, final, results,
                   comparison_data_for_table, out, history, dashboard>>

\* The closed form one year short.
FinalStockPriceShort(current_price_calc, growth, years) ==
    Mul(current_price_calc, Pow(Add(ONE, growth), years - 1))

\* current_price_calc * ((1 + growth) ** investment_years): the closed-form
\* final stock price.
FinalStockPrice(current_price_calc, growth, years) ==
    Mul(current_price_calc, Pow(Add(ONE, growth), years))

\* The ratio without the factor 100.
YieldOnCostFraction(annual_dividend_per_share_start, initial_share_price) ==
    IF Positive(initial_share_price) /\ Positive(annual_dividend_per_share_start)
    THEN Div(annual_dividend_per_share_start, initial_share_price)
    ELSE ZERO

\* (annual_dividend_per_share_start / initial_share_price) * 100, or 0.0
YieldOnCost(annual_dividend_per_share_start, initial_share_price) ==
    IF Positive(initial_share_price) /\ Positive(annual_dividend_per_share_start)
    THEN Mul(Div(annual_dividend_per_share_start, initial_share_price), Num(100))
    ELSE ZERO

\* After the year loop: the final values, the yield on cost, the result entry
\* and the row of the comparison table.
calculator_finish ==
    /\ handler = "calculator" /\ pc = "year" /\ sim.year_iter > Years(form)
    /\ LET last == Len(portfolio_values_with_drip_chart)
           final_investment_value_with_drip == portfolio_values_with_drip_chart[last].y
           final_shares_with_drip == shares_owned_with_drip_chart[last].y
           final_shares_no_drip ==
               Div(form.initial_investment, form.initial_share_price)
           final_stock_price_at_end ==
               FinalStockPrice(tk.current_price_calc,
                               tk.stock_price_growth_decimal_calc, Years(form))
           final_value_no_drip ==
               NoDripValue(form, final_stock_price_at_end,
                           sim.total_dividends_received_no_drip)
           yield_on_cost ==
               YieldOnCost(tk.annual_dividend_per_share_start, form.initial_share_price)
       IN  /\ final' = [final_investment_value_with_drip |->
                            final_investment_value_with_drip,
                        final_shares_with_drip |-> final_shares_with_drip,
                        final_shares_no_drip |-> final_shares_no_drip,
                        final_value_no_drip |-> final_value_no_drip,
                        yield_on_cost |-> yield_on_cost]
           /\ results' = Append(results,
                  [ticker |-> tk.ticker_symbol,
                   current_price |-> Fmt(tk.current_price_calc),
                   annual_dividend_per_share |-> Fmt(tk.annual_dividend_per_share_start),
                   initial_shares |->
                       Fmt(Div(form.initial_investment, tk.current_price_calc)),
                   final_value_no_drip |-> Fmt(final_value_no_drip),
                   final_shares_no_drip |-> Fmt(final_shares_no_drip),
                   final_value_with_drip |-> Fmt(final_investment_value_with_drip),
                   final_shares_with_drip |-> Fmt(final_shares_with_drip),
                   yearly_breakdown_display |-> yearly_breakdown,
                   drip_portfolio_value_chart_data |-> portfolio_values_with_drip_chart,
                   drip_shares_owned_chart_data |-> shares_owned_with_drip_chart,
                   payout_frequency_fetched |-> form.payout_frequency,
                   yield_on_cost |-> Fmt(yield_on_cost),
                   error |-> NONE])
           /\ comparison_data_for_table' = Append(comparison_data_for_table,
                  [Ticker |-> tk.ticker_symbol,
                   FinalValueNoDrip |-> Fmt(final_value_no_drip),
                   FinalValueWithDrip |-> Fmt(final_investment_value_with_drip)])
    /\ idx' = idx + 1
    /\ pc' = "ticker"
    /\ UNCHANGED <<form, handler, tickers, tk, sim, yr, yearly_breakdown,
                   portfolio_values_with_drip_chart, shares_owned_with_drip_chart,
                   out, history, dashboard>>

\* all(...) where the code has any(...)
AllError(rs) == \A k \in 1..Len(rs) : Get(rs[k], "error") /= NONE

\* any(r.get('error') for r in results)
AnyError(rs) == \E k \in 1..Len(rs) : Get(rs[k], "error") /= NONE

\* After the ticker loop, or after a failed validation: the comparison table
\* and the rendered page.
calculator_respond ==
    /\ handler = "calculator"
    /\ pc = "respond" \/ (pc = "ticker" /\ idx > Len(tickers))
    /\ LET comparison_table ==
               IF pc = "ticker" /\ Len(form.tickers) > 1 /\ ~AnyError(results)
                  /\ comparison_data_for_table /= << >>
               THEN comparison_data_for_table
               ELSE NONE
       IN  Return([status |-> "200", results |-> results,
                   comparison_table |-> comparison_table])

\* ------------------------------------------------------------ export_csv

\* export_csv without `not investment_years` in its check of the form.
export_csv_begin_any_duration ==
    /\ handler = "export_csv" /\ pc = "begin"
    /\ LET tickers_str == JoinComma(form.tickers)
       IN  IF tickers_str = << >> \/ Falsy(form.initial_investment)
           THEN Return([status |-> "400"])
           ELSE /\ tickers' = ExportTickers(tickers_str)
                /\ idx' = 1
                /\ results' = << >>
                /\ pc' = "ticker"
                /\ UNCHANGED <<form, handler, locals, comparison_data_for_table, out, history, dashboard>>

\* POST /export_csv up to the ticker loop.  The hidden fields of the export
\* form carry the values of the calculator form.
export_csv_begin ==
    /\ handler = "export_csv" /\ pc = "begin"
    /\ LET tickers_str == JoinComma(form.tickers)
       IN  IF tickers_str = << >> \/ Falsy(form.initial_investment)
              \/ Falsy(form.investment_years)
           THEN Return([status |-> "400"])
           ELSE /\ tickers' = ExportTickers(tickers_str)
                /\ idx' = 1
                /\ results' = << >>
                /\ pc' = "ticker"
                /\ UNCHANGED <<form, handler, locals, comparison_data_for_table, out, history, dashboard>>

\* One pass of `for ticker_symbol in tickers` up to the year loop.  Dividing
\* a missing stock growth rate by 100 raises TypeError.
export_csv_ticker ==
    /\ handler = "export_csv" /\ pc = "ticker" /\ idx <= Len(tickers)
    /\ LET ticker_symbol == tickers[idx]
           drip_data == get_drip_stock_data(ticker_symbol)
           r == Resolved(ticker_symbol, drip_data, form)
       IN  IF "error" \in DOMAIN drip_data
           THEN /\ results' = Append(results,
                       [Ticker |-> ticker_symbol, Error |-> drip_data.error])
                /\ idx' = idx + 1
                /\ UNCHANGED <<form, handler, pc, tickers, locals,
                               comparison_data_for_table, out, history, dashboard>>
           ELSE IF IsNone(form.annual_stock_price_growth_rate)
           THEN Return([status |-> "500"])
           ELSE IF IsZero(r.annual_dividend_per_share_start)
           THEN /\ results' = Append(results,
                       [Ticker |-> ticker_symbol,
                        Error |-> <<"does not pay dividends", ticker_symbol>>])
                /\ tk' = r
                /\ idx' = idx + 1
                /\ UNCHANGED <<form, handler, pc, tickers, sim, yr, yearly_breakdown,
                               final, portfolio_values_with_drip_chart,
                               shares_owned_with_drip_chart,
                               comparison_data_for_table, out, history, dashboard>>
           ELSE /\ tk' = r
                /\ sim' = [sim EXCEPT
                       !.year_iter = 1,
                       !.current_shares_drip =
                           Div(form.initial_investment, r.current_price_calc),
                       !.current_stock_price_sim = r.current_price_calc,
                       !.annual_dividend_per_share_sim =
                           r.annual_dividend_per_share_start]
                /\ yearly_breakdown' = << >>
                /\ pc' = "year"
                /\ UNCHANGED <<form, handler, tickers, idx, yr, final, results,
                               portfolio_values_with_drip_chart,
                               shares_owned_with_drip_chart,
                               comparison_data_for_table, out, history, dashboard>>

\* The head of the year loop of export_csv.
export_csv_year ==
    /\ handler = "export_csv" /\ pc = "year" /\ sim.year_iter <= Years(form)
    /\ LET number_of_payouts == PayoutsDict(form.payout_frequency)
       IN  yr' = [yr EXCEPT
                  !.year = sim.year_iter,
                  !.shares_at_start_of_year_drip = sim.current_shares_drip,
                  !.stock_price_at_start_of_year = sim.current_stock_price_sim,
                  !.annual_dividend_per_share_at_start_of_year =
                      sim.annual_dividend_per_share_sim,
                  !.dividends_received_this_year_drip = ZERO,
                  !.reinvested_shares_this_year_drip = ZERO,
                  !.number_of_payouts = number_of_payouts,
                  !.period_stock_price_growth_rate =
                      PeriodRate(tk.stock_price_growth_decimal_calc, number_of_payouts),
                  !.period_dividend_growth_rate =
                      PeriodRate(tk.div_growth_decimal_calc, number_of_payouts),
                  !.i = 0]
    /\ sim' = [sim EXCEPT !.year_iter = @ + 1]
    /\ pc' = IF form.drip_enabled = "yes" THEN "payout" ELSE "yearend"
    /\ UNCHANGED <<form, handler, tickers, idx, tk, yearly_breakdown,
                   portfolio_values_with_drip_chart, shares_owned_with_drip_chart,
                   final, results, comparison_data_for_table, out, history, dashboard>>

\* One pass of the payout loop of export_csv.
export_csv_payout ==
    /\ handler = "export_csv" /\ pc = "payout"
    /\ LET current_stock_price_for_reinvestment ==
               Compounded(yr.stock_price_at_start_of_year,
                          yr.period_stock_price_growth_rate, yr.i)
           current_dividend_per_share_for_period ==
               Compounded(Div(yr.annual_dividend_per_share_at_start_of_year,
                              Num(yr.number_of_payouts)),
                          yr.period_dividend_growth_rate, yr.i)
           dividends_received_this_period_period ==
               Mul(yr.shares_at_start_of_year_drip,
                   current_dividend_per_share_for_period)
           shares_bought_this_period ==
               SharesBought(dividends_received_this_period_period,
                            current_stock_price_for_reinvestment)
       IN  IF IsComplex(current_stock_price_for_reinvestment)
           THEN Return([status |-> "500"])
           ELSE /\ sim' = [sim EXCEPT
                       !.current_shares_drip = Add(@, shares_bought_this_period)]
                /\ yr' = [yr EXCEPT
                       !.current_stock_price_for_reinvestment =
                           current_stock_price_for_reinvestment,
                       !.current_dividend_per_share_for_period =
                           current_dividend_per_share_for_period,
                       !.dividends_received_this_period_drip =
                           dividends_received_this_period_period,
                       !.shares_bought_this_period = shares_bought_this_period,
                       !.dividends_received_this_year_drip =
                           Add(@, dividends_received_this_period_period),
                       !.reinvested_shares_this_year_drip =
                           Add(@, shares_bought_this_period),
                       !.i = @ + 1]
                /\ pc' = IF yr.i + 1 < yr.number_of_payouts THEN "payout" ELSE "yearend"
                /\ UNCHANGED <<form, handler, tickers, idx, tk, yearly_breakdown,
                               portfolio_values_with_drip_chart,
                               shares_owned_with_drip_chart, final, results,
                               comparison_data_for_table, out, history, dashboard>>

\* The rest of the year of export_csv: the row holds the unformatted floats.
export_csv_year_end ==
    /\ handler = "export_csv" /\ pc = "yearend"
    /\ LET drip == form.drip_enabled = "yes"
           dividends_received_this_year ==
               IF drip THEN yr.dividends_received_this_year_drip
               ELSE Mul(yr.shares_at_start_of_year_drip,
                        yr.annual_dividend_per_share_at_start_of_year)
           reinvested_shares_this_year ==
               IF drip THEN yr.reinvested_shares_this_year_drip ELSE ZERO
           current_stock_price ==
               Grown(yr.stock_price_at_start_of_year, tk.stock_price_growth_decimal_calc)
           annual_dividend_per_share ==
               Grown(yr.annual_dividend_per_share_at_start_of_year,
                     tk.div_growth_decimal_calc)
           portfolio_value_end_of_year == Mul(sim.current_shares_drip, current_stock_price)
       IN  /\ sim' = [sim EXCEPT
                  !.current_stock_price_sim = current_stock_price,
                  !.annual_dividend_per_share_sim = annual_dividend_per_share]
           /\ yr' = [yr EXCEPT
                  !.dividends_received_this_year_drip = dividends_received_this_year,
                  !.reinvested_shares_this_year_drip = reinvested_shares_this_year,
                  !.portfolio_value_end_of_year_drip = portfolio_value_end_of_year]
           /\ yearly_breakdown' = Append(yearly_breakdown,
                  [Year |-> yr.year,
                   Ticker |-> tk.ticker_symbol,
                   SharesOwnedStart |-> yr.shares_at_start_of_year_drip,
                   StockPriceStart |-> yr.stock_price_at_start_of_year,
                   AnnualDividendPerShare |->
                       yr.annual_dividend_per_share_at_start_of_year,
                   DividendsReceivedYear |-> dividends_received_this_year,
                   ReinvestedSharesYear |-> reinvested_shares_this_year,
                   SharesOwnedEnd |-> sim.current_shares_drip,
                   PortfolioValueEnd |-> portfolio_value_end_of_year])
    /\ pc' = "year"
    /\ UNCHANGED <<form, handler, tickers, idx, tk, final, results,
                   portfolio_values_with_drip_chart, shares_owned_with_drip_chart,
                   comparison_data_for_table, out, history, dashboard>>

\* After the year loop of export_csv: the rows of the ticker join the export.
export_csv_finish ==
    /\ handler = "export_csv" /\ pc = "year" /\ sim.year_iter > Years(form)
    /\ results' = results \o yearly_breakdown
    /\ idx' = idx + 1
    /\ pc' = "ticker"
    /\ UNCHANGED <<form, handler, tickers, locals, comparison_data_for_table, out, history, dashboard>>

\* A row as to_csv(float_format="%.2f") writes it: the floats to two decimals.
CsvRow(row) ==
    IF "Error" \in DOMAIN row THEN row
    ELSE [Year |-> row.Year,
          Ticker |-> row.Ticker,
          SharesOwnedStart |-> Fmt(row.SharesOwnedStart),
          StockPriceStart |-> Fmt(row.StockPriceStart),
          AnnualDividendPerShare |-> Fmt(row.AnnualDividendPerShare),
          DividendsReceivedYear |-> Fmt(row.DividendsReceivedYear),
          ReinvestedSharesYear |-> Fmt(row.ReinvestedSharesYear),
          SharesOwnedEnd |-> Fmt(row.SharesOwnedEnd),
          PortfolioValueEnd |-> Fmt(row.PortfolioValueEnd)]

\* After the ticker loop of export_csv: the CSV file.
export_csv_respond ==
    /\ handler = "export_csv" /\ pc = "ticker" /\ idx > Len(tickers)
    /\ Return([status |-> "200",
               results |-> [k \in 1..Len(results) |-> CsvRow(results[k])]])

\* ------------------------------------------------------------ export_pdf

\* The stock growth rate export_pdf reads: the form field
\* export_annual_dividend_growth_rate_pdf, the same field as the dividend
\* growth rate.
annual_stock_price_growth_rate_export_pdf(f) == f.annual_dividend_growth_rate

\* POST /export_pdf up to the ticker loop.  The summary paragraph formats the
\* share price, the yield and the growth rates: a missing one raises
\* TypeError, which the handler's except clause turns into a 500 response.
export_pdf_begin ==
    /\ handler = "export_pdf" /\ pc = "begin"
    /\ LET tickers_str == JoinComma(form.tickers)
       IN  IF tickers_str = << >> \/ IsNone(form.initial_investment)
              \/ IsNone(form.investment_years)
           THEN Return([status |-> "400"])
           ELSE IF IsNone(form.initial_share_price) \/ IsNone(form.dividend_yield)
                   \/ IsNone(annual_stock_price_growth_rate_export_pdf(form))
           THEN Return([status |-> "500"])
           ELSE /\ tickers' = ExportTickers(tickers_str)
                /\ idx' = 1
                /\ results' = << >>
                /\ pc' = "ticker"
                /\ UNCHANGED <<form, handler, locals, comparison_data_for_table, out, history, dashboard>>

\* The synthetic "Year 0" row of the PDF table.
PdfYearZero(f, current_price_calc) ==
    LET shares == IF Positive(f.initial_share_price)
                  THEN Div(f.initial_investment, f.initial_share_price)
                  ELSE ZERO
    IN  [Year |-> 0,
         SharesOwnedStart |-> Fmt(shares),
         StockPriceStart |-> Fmt(f.initial_share_price),
         AnnualDividendPerShare |->
             Fmt(Mul(current_price_calc, Percent(f.dividend_yield))),
         DividendsReceivedYear |-> ZERO,
         ReinvestedSharesYear |-> ZERO,
         SharesOwnedEnd |-> Fmt(shares),
         PortfolioValueEnd |-> Fmt(f.initial_investment)]

\* One pass of `for ticker_symbol in tickers` of export_pdf up to the year
\* loop.  A zero starting dividend only adds a paragraph (and only without
\* DRIP); the ticker is skipped when its share count is zero.
export_pdf_ticker ==
    /\ handler = "export_pdf" /\ pc = "ticker" /\ idx <= Len(tickers)
    /\ LET ticker_symbol == tickers[idx]
           drip_data == get_drip_stock_data(ticker_symbol)
           drip_enabled == form.drip_enabled = "yes"
           r == Resolved(ticker_symbol, drip_data,
                         [form EXCEPT !.annual_stock_price_growth_rate =
                              annual_stock_price_growth_rate_export_pdf(form)])
           note == IF IsZero(r.annual_dividend_per_share_start) /\ ~drip_enabled
                   THEN <<[ticker |-> ticker_symbol,
                           note |-> <<"Does not pay dividends or dividend yield is zero",
                                      ticker_symbol>>]>>
                   ELSE << >>
           current_shares ==
               IF Positive(r.current_price_calc)
               THEN Div(form.initial_investment, r.current_price_calc)
               ELSE ZERO
       IN  IF "error" \in DOMAIN drip_data
           THEN /\ results' = Append(results,
                       [ticker |-> ticker_symbol, error |-> drip_data.error])
                /\ idx' = idx + 1
                /\ UNCHANGED <<pc, locals>>
           ELSE IF IsZero(current_shares)
           THEN /\ results' = results \o note \o
                       <<[ticker |-> ticker_symbol,
                          error |-> <<"Initial share price is zero or invalid",
                                      ticker_symbol>>]>>
                /\ tk' = r
                /\ sim' = [sim EXCEPT !.current_shares_drip = current_shares]
                /\ idx' = idx + 1
                /\ UNCHANGED <<pc, yr, yearly_breakdown, final,
                               portfolio_values_with_drip_chart,
                               shares_owned_with_drip_chart>>
           ELSE /\ results' = results \o note
                /\ tk' = r
                /\ sim' = [sim EXCEPT
                       !.year_iter = 1,
                       !.current_shares_drip = current_shares,
                       !.current_stock_price_sim = r.current_price_calc,
                       !.annual_dividend_per_share_sim =
                           r.annual_dividend_per_share_start]
                /\ yearly_breakdown' = <<PdfYearZero(form, r.current_price_calc)>>
                /\ pc' = "year"
                /\ UNCHANGED <<idx, yr, final, portfolio_values_with_drip_chart,
                               shares_owned_with_drip_chart>>
    /\ UNCHANGED <<form, handler, tickers, comparison_data_for_table, out, history, dashboard>>

\* The head of the year loop of export_pdf: the payout frequency is
\* capitalized before the lookup.
export_pdf_year ==
    /\ handler = "export_pdf" /\ pc = "year" /\ sim.year_iter <= Years(form)
    /\ LET number_of_payouts == PayoutsDict(Capitalize(form.payout_frequency))
       IN  yr' = [yr EXCEPT
                  !.year = sim.year_iter,
                  !.shares_at_start_of_year_drip = sim.current_shares_drip,
                  !.stock_price_at_start_of_year = sim.current_stock_price_sim,
                  !.annual_dividend_per_share_at_start_of_year =
                      sim.annual_dividend_per_share_sim,
                  !.dividends_received_this_year_drip = ZERO,
                  !.reinvested_shares_this_year_drip = ZERO,
                  !.number_of_payouts = number_of_payouts,
                  !.period_stock_price_growth_rate =
                      PeriodRate(tk.stock_price_growth_decimal_calc, number_of_payouts),
                  !.period_dividend_growth_rate =
                      PeriodRate(tk.div_growth_decimal_calc, number_of_payouts),
                  !.i = 0]
    /\ sim' = [sim EXCEPT !.year_iter = @ + 1]
    /\ pc' = IF form.drip_enabled = "yes" THEN "payout" ELSE "yearend"
    /\ UNCHANGED <<form, handler, tickers, idx, tk, yearly_breakdown,
                   portfolio_values_with_drip_chart, shares_owned_with_drip_chart,
                   final, results, comparison_data_for_table, out, history, dashboard>>

\* One pass of the payout loop of export_pdf: the reinvestment price is
\* compounded from the running price, which the year has not yet changed.
export_pdf_payout ==
    /\ handler = "export_pdf" /\ pc = "payout"
    /\ LET current_stock_price_for_reinvestment ==
               Compounded(sim.current_stock_price_sim,
                          yr.period_stock_price_growth_rate, yr.i)
           current_dividend_per_share_for_period ==
               Compounded(Div(yr.annual_dividend_per_share_at_start_of_year,
                              Num(yr.number_of_payouts)),
                          yr.period_dividend_growth_rate, yr.i)
           dividends_received_this_period ==
               Mul(yr.shares_at_start_of_year_drip,
                   current_dividend_per_share_for_period)
           shares_bought_this_period ==
               SharesBought(dividends_received_this_period,
                            current_stock_price_for_reinvestment)
       IN  IF IsComplex(current_stock_price_for_reinvestment)
           THEN Return([status |-> "500"])
           ELSE /\ sim' = [sim EXCEPT
                       !.current_shares_drip = Add(@, shares_bought_this_period)]
                /\ yr' = [yr EXCEPT
                       !.current_stock_price_for_reinvestment =
                           current_stock_price_for_reinvestment,
                       !.current_dividend_per_share_for_period =
                           current_dividend_per_share_for_period,
                       !.dividends_received_this_period_drip =
                           dividends_received_this_period,
                       !.shares_bought_this_period = shares_bought_this_period,
                       !.dividends_received_this_year_drip =
                           Add(@, dividends_received_this_period),
                       !.reinvested_shares_this_year_drip =
                           Add(@, shares_bought_this_period),
                       !.i = @ + 1]
                /\ pc' = IF yr.i + 1 < yr.number_of_payouts THEN "payout" ELSE "yearend"
                /\ UNCHANGED <<form, handler, tickers, idx, tk, yearly_breakdown,
                               portfolio_values_with_drip_chart,
                               shares_owned_with_drip_chart, final, results,
                               comparison_data_for_table, out, history, dashboard>>

\* The rest of the year of export_pdf: the row holds the formatted figures.
export_pdf_year_end ==
    /\ handler = "export_pdf" /\ pc = "yearend"
    /\ LET drip == form.drip_enabled = "yes"
           dividends_received_this_year ==
               IF drip THEN yr.dividends_received_this_year_drip
               ELSE Mul(yr.shares_at_start_of_year_drip,
                        yr.annual_dividend_per_share_at_start_of_year)
           reinvested_shares_this_year ==
               IF drip THEN yr.reinvested_shares_this_year_drip ELSE ZERO
           current_stock_price ==
               Grown(sim.current_stock_price_sim, tk.stock_price_growth_decimal_calc)
           annual_dividend_per_share ==
               Grown(yr.annual_dividend_per_share_at_start_of_year,
                     tk.div_growth_decimal_calc)
           portfolio_value_end_of_year == Mul(sim.current_shares_drip, current_stock_price)
       IN  /\ sim' = [sim EXCEPT
                  !.current_stock_price_sim = current_stock_price,
                  !.annual_dividend_per_share_sim = annual_dividend_per_share]
           /\ yr' = [yr EXCEPT
                  !.dividends_received_this_year_drip = dividends_received_this_year,
                  !.reinvested_shares_this_year_drip = reinvested_shares_this_year,
                  !.portfolio_value_end_of_year_drip = portfolio_value_end_of_year]
           /\ yearly_breakdown' = Append(yearly_breakdown,
                  [Year |-> yr.year,
                   SharesOwnedStart |-> Fmt(yr.shares_at_start_of_year_drip),
                   StockPriceStart |-> Fmt(yr.stock_price_at_start_of_year),
                   AnnualDividendPerShare |->
                       Fmt(yr.annual_dividend_per_share_at_start_of_year),
                   DividendsReceivedYear |-> Fmt(dividends_received_this_year),
                   ReinvestedSharesYear |-> Fmt(reinvested_shares_this_year),
                   SharesOwnedEnd |-> Fmt(sim.current_shares_drip),
                   PortfolioValueEnd |-> Fmt(portfolio_value_end_of_year)])
    /\ pc' = "year"
    /\ UNCHANGED <<form, handler, tickers, idx, tk, final, results,
                   portfolio_values_with_drip_chart, shares_owned_with_drip_chart,
                   comparison_data_for_table, out, history, dashboard>>

\* After the year loop of export_pdf: the ticker's table joins the story.
export_pdf_finish ==
    /\ handler = "export_pdf" /\ pc = "year" /\ sim.year_iter > Years(form)
    /\ results' = Append(results,
           [ticker |-> tk.ticker_symbol, table |-> yearly_breakdown])
    /\ idx' = idx + 1
    /\ pc' = "ticker"
    /\ UNCHANGED <<form, handler, tickers, locals, comparison_data_for_table, out, history, dashboard>>

\* After the ticker loop of export_pdf: the PDF file.
export_pdf_respond ==
    /\ handler = "export_pdf" /\ pc = "ticker" /\ idx > Len(tickers)
    /\ Return([status |-> "200", results |-> results])

\* ------------------------------------------------------------ dashboard

\* The first MaxSymbols symbols of STOCK_SYMBOLS.
STOCK_SYMBOLS == SubSeq(<<"AAPL", "MSFT", "GOOG">>, 1, MaxSymbols)

\* The threads serving GET /api/stocks.
RequestThreads == {"request-1", "request-2"}

\* What requests.get, raise_for_status and .json() give for one URL: an
\* exception, or the decoded body.
Response(error, data) == [error |-> error, data |-> data]

\* A quote with all five prices.
FullQuote(c) == [c |-> Num(c), h |-> Num(2), l |-> Num(1), o |-> Num(1), pc |-> Num(1)]

QuoteResponses ==
    {Response(e, << >>) : e \in {"ConnectionError", "HTTPError", "JSONDecodeError"}}
    \cup {Response("none", d) : d \in
            {<< >>, FullQuote(1),
             [FullQuote(1) EXCEPT !.c = NONE],
             [FullQuote(1) EXCEPT !.h = NONE],
             [FullQuote(1) EXCEPT !.l = NONE],
             [FullQuote(1) EXCEPT !.o = NONE],
             [FullQuote(1) EXCEPT !.pc = NONE],
             [FullQuote(2) EXCEPT !.pc = ZERO]}}

ProfileResponses ==
    {Response(e, << >>) : e \in {"ConnectionError", "HTTPError", "JSONDecodeError"}}
    \cup {Response("none", d) : d \in {<< >>, [name |-> "Inc", logo |-> "png"]}}

\* The readings of time.time() at a cache write.
Clock == {1}

UPDATED == "Updated dashboard data"
NO_QUOTE == "No valid quote data"
NETWORK_ERROR == "Network or API error fetching dashboard data"
JSON_ERROR == "JSON decoding error"
UNEXPECTED_ERROR == "An unexpected error occurred fetching dashboard data"

\* fetch_and_update_dashboard_stock_data up to `with data_lock`: the line
\* it prints when it ends there, or "" when it goes on to the lock.
Fetched(quote_response, profile_response) ==
    LET quote_data == quote_response.data
    IN  IF quote_response.error \in {"ConnectionError", "HTTPError"} THEN NETWORK_ERROR
        ELSE IF quote_response.error = "JSONDecodeError" THEN JSON_ERROR
        ELSE IF profile_response.error \in {"ConnectionError", "HTTPError"} THEN NETWORK_ERROR
        ELSE IF profile_response.error = "JSONDecodeError" THEN JSON_ERROR
        ELSE IF DOMAIN quote_data = {} \/ IsNone(Get(quote_data, "c")) THEN NO_QUOTE
        ELSE IF IsNone(Get(quote_data, "pc")) THEN UNEXPECTED_ERROR
        ELSE ""

\* The dict literal of the cache write raises TypeError: a price that is
\* None cannot be formatted with :.2f.
Unformattable(quote_data) ==
    \E key \in {"h", "l", "o"} : IsNone(Get(quote_data, key))

\* profile_data.get(key, default)
GetOr(d, key, default) == IF key \in DOMAIN d THEN d[key] ELSE default

\* The entry written for a symbol.
Entry(symbol, quote_data, profile_data, now) ==
    LET current_price == quote_data.c
        prev_close_price == quote_data.pc
        change == Sub(current_price, prev_close_price)
        percentage_change ==
            IF Truthy(prev_close_price)
            THEN Mul(Div(change, prev_close_price), Num(100))
            ELSE ZERO
    IN  [symbol |-> symbol,
         company_name |-> GetOr(profile_data, "name", symbol),
         logo |-> GetOr(profile_data, "logo", ""),
         current_price |-> Round2(current_price),
         high_price |-> Round2(quote_data.h),
         low_price |-> Round2(quote_data.l),
         open_price |-> Round2(quote_data.o),
         prev_close_price |-> Round2(prev_close_price),
         change |-> Round2(change),
         percentage_change |-> Round2(percentage_change),
         timestamp |-> now * 1000]

\* latest_stock_data[symbol] = entry: a dict keeps its keys in insertion
\* order and a key that is already there keeps its place.
Store(cache, entry) ==
    IF \E k \in 1..Len(cache) : cache[k].symbol = entry.symbol
    THEN [k \in 1..Len(cache) |->
              IF cache[k].symbol = entry.symbol THEN entry ELSE cache[k]]
    ELSE Append(cache, entry)

\* threading.Lock taken whatever its state.
Reentrant(lock) == TRUE

\* threading.Lock: acquire returns only while no thread holds the lock.
Free(lock) == lock = {}

\* The state of the view functions, none of which touches the dashboard's.
views == <<form, handler, pc, tickers, idx, locals, results,
           comparison_data_for_table, out, history>>

BlankFetch == [quote_data |-> << >>, profile_data |-> << >>]

\* The module as imported: an empty cache, a free lock, the updater thread
\* started, no request running.
DashboardStart ==
    /\ latest_stock_data = << >>
    /\ data_lock = {}
    /\ updater_thread = [pc |-> "fetch", i |-> 1, fetch |-> BlankFetch, printed |-> ""]
    /\ api_stocks = [r \in RequestThreads |-> [pc |-> "idle", body |-> << >>]]

\* The two requests of a fetch and the checks before the lock.
updater_fetch ==
    /\ updater_thread.pc = "fetch"
    /\ \E quote_response \in QuoteResponses, profile_response \in ProfileResponses :
           LET printed == Fetched(quote_response, profile_response)
           IN  updater_thread' =
                   IF printed = ""
                   THEN [updater_thread EXCEPT
                           !.pc = "acquire",
                           !.fetch = [quote_data |-> quote_response.data,
                                      profile_data |-> profile_response.data]]
                   ELSE [updater_thread EXCEPT !.pc = "sleep", !.printed = printed]
    /\ UNCHANGED <<latest_stock_data, data_lock, api_stocks>>
    /\ UNCHANGED views

\* `with data_lock:` of the updater.
updater_acquire ==
    /\ updater_thread.pc = "acquire"
    /\ Free(data_lock)
    /\ data_lock' = data_lock \cup {"updater_thread"}
    /\ updater_thread' = [updater_thread EXCEPT !.pc = "write"]
    /\ UNCHANGED <<latest_stock_data, api_stocks>>
    /\ UNCHANGED views

\* The cache write that creates the entry before its prices are formatted.
updater_write_in_place ==
    /\ updater_thread.pc = "write"
    /\ LET symbol == STOCK_SYMBOLS[updater_thread.i]
           quote_data == updater_thread.fetch.quote_data
           profile_data == updater_thread.fetch.profile_data
       IN  IF Unformattable(quote_data)
           THEN /\ latest_stock_data' = Store(latest_stock_data, [symbol |-> symbol])
                /\ data_lock' = data_lock \ {"updater_thread"}
                /\ updater_thread' = [updater_thread EXCEPT
                       !.pc = "sleep", !.fetch = BlankFetch, !.printed = UNEXPECTED_ERROR]
           ELSE /\ \E now \in Clock :
                       latest_stock_data' =
                           Store(latest_stock_data,
                                 Entry(symbol, quote_data, profile_data, now))
                /\ updater_thread' = [updater_thread EXCEPT
                       !.pc = "release", !.printed = UPDATED]
                /\ UNCHANGED data_lock
    /\ UNCHANGED api_stocks
    /\ UNCHANGED views

\* The body of `with data_lock:`: the entry is built, then stored.  When
\* building it raises, the lock is released on the way to the handler and
\* nothing is stored.
updater_write ==
    /\ updater_thread.pc = "write"
    /\ LET symbol == STOCK_SYMBOLS[updater_thread.i]
           quote_data == updater_thread.fetch.quote_data
           profile_data == updater_thread.fetch.profile_data
       IN  IF Unformattable(quote_data)
           THEN /\ data_lock' = data_lock \ {"updater_thread"}
                /\ updater_thread' = [updater_thread EXCEPT
                       !.pc = "sleep", !.fetch = BlankFetch, !.printed = UNEXPECTED_ERROR]
                /\ UNCHANGED latest_stock_data
           ELSE /\ \E now \in Clock :
                       latest_stock_data' =
                           Store(latest_stock_data,
                                 Entry(symbol, quote_data, profile_data, now))
                /\ updater_thread' = [updater_thread EXCEPT
                       !.pc = "release", !.printed = UPDATED]
                /\ UNCHANGED data_lock
    /\ UNCHANGED api_stocks
    /\ UNCHANGED views

\* The end of `with data_lock:` and of the fetch.
updater_release ==
    /\ updater_thread.pc = "release"
    /\ data_lock' = data_lock \ {"updater_thread"}
    /\ updater_thread' = [updater_thread EXCEPT !.pc = "sleep", !.fetch = BlankFetch]
    /\ UNCHANGED <<latest_stock_data, api_stocks>>
    /\ UNCHANGED views

\* The loop left by a fetch that printed a failure: the thread is over.
updater_sleep_stopped_by_failure ==
    /\ updater_thread.pc = "sleep"
    /\ updater_thread' = [updater_thread EXCEPT
           !.pc = IF updater_thread.printed \notin {"", UPDATED} THEN "over"
                  ELSE IF updater_thread.i < Len(STOCK_SYMBOLS) THEN "fetch"
                  ELSE "cycle",
           !.i = updater_thread.i + 1,
           !.printed = ""]
    /\ UNCHANGED <<latest_stock_data, data_lock, api_stocks>>
    /\ UNCHANGED views
\* time.sleep(0.5) and the next symbol of `for symbol in STOCK_SYMBOLS`.
\* `printed` is the line the fetch that has just returned printed.
updater_sleep ==
    /\ updater_thread.pc = "sleep"
    /\ updater_thread' = [updater_thread EXCEPT
           !.pc = IF updater_thread.i < Len(STOCK_SYMBOLS) THEN "fetch" ELSE "cycle",
           !.i = updater_thread.i + 1,
           !.printed = ""]
    /\ UNCHANGED <<latest_stock_data, data_lock, api_stocks>>
    /\ UNCHANGED views

\* The sleep up to FETCH_INTERVAL_SECONDS and the next pass of `while True`.
updater_cycle ==
    /\ updater_thread.pc = "cycle"
    /\ updater_thread' = [updater_thread EXCEPT !.pc = "fetch", !.i = 1]
    /\ UNCHANGED <<latest_stock_data, data_lock, api_stocks>>
    /\ UNCHANGED views

\* `with data_lock:` of api_stocks.
api_stocks_enter(r) ==
    /\ api_stocks[r].pc = "idle"
    /\ Free(data_lock)
    /\ data_lock' = data_lock \cup {r}
    /\ api_stocks' = [api_stocks EXCEPT ![r] = [pc |-> "jsonify", body |-> << >>]]
    /\ UNCHANGED <<latest_stock_data, updater_thread>>
    /\ UNCHANGED views

\* jsonify(latest_stock_data) walks the dict: the next item goes into the
\* body.
api_stocks_dump(r) ==
    /\ api_stocks[r].pc = "jsonify"
    /\ Len(api_stocks[r].body) < Len(latest_stock_data)
    /\ api_stocks' = [api_stocks EXCEPT
           ![r].body = Append(@, latest_stock_data[Len(@) + 1])]
    /\ UNCHANGED <<latest_stock_data, data_lock, updater_thread>>
    /\ UNCHANGED views

\* The walk is over: the lock is released and the body is sent.
api_stocks_return(r) ==
    /\ api_stocks[r].pc = "jsonify"
    /\ Len(api_stocks[r].body) >= Len(latest_stock_data)
    /\ data_lock' = data_lock \ {r}
    /\ api_stocks' = [api_stocks EXCEPT ![r] = [pc |-> "idle", body |-> << >>]]
    /\ UNCHANGED <<latest_stock_data, updater_thread>>
    /\ UNCHANGED views

DashboardInit ==
    /\ form = << >>
    /\ handler = "none"
    /\ pc = "idle"
    /\ tickers = << >>
    /\ idx = 0
    /\ tk = BlankTk
    /\ sim = BlankSim
    /\ yr = BlankYr
    /\ yearly_breakdown = << >>
    /\ portfolio_values_with_drip_chart = << >>
    /\ shares_owned_with_drip_chart = << >>
    /\ final = BlankFinal
    /\ results = << >>
    /\ comparison_data_for_table = << >>
    /\ out = [h \in {"calculator", "export_csv", "export_pdf"} |-> NoResponse]
    /\ history = << >>
    /\ DashboardStart

DashboardNext ==
    \/ updater_fetch
    \/ updater_acquire
    \/ updater_write
    \/ updater_release
    \/ updater_sleep
    \/ updater_cycle
    \/ \E r \in RequestThreads : api_stocks_enter(r)
    \/ \E r \in RequestThreads : api_stocks_dump(r)
    \/ \E r \in RequestThreads : api_stocks_return(r)

\* The updater thread and the threads of GET /api/stocks, interleaved.
DashboardSpec == DashboardInit /\ [][DashboardNext]_vars

\* What the scheduling grants the updater: its two sleeps end, and the
\* thread goes on with the next symbol or the next cycle.  The two requests
\* of a fetch have no timeout and threading.Lock is not fair: there is no
\* fairness for the steps inside a fetch, nor for the request threads.
DashboardFairness ==
    /\ WF_vars(updater_sleep)
    /\ WF_vars(updater_cycle)

\* The updater thread and the request threads under that scheduling.
DashboardLiveSpec == DashboardInit /\ [][DashboardNext]_vars /\ DashboardFairness

\* ------------------------------------------------------------ specification

\* The payout counts the three view functions derive from a frequency.
PayoutCounts(frequency) ==
    {PayoutsDict(frequency), PayoutsDict(Capitalize(frequency))}

\* The annual growth rates (percent) the simulation of a ticker can meet:
\* both form rates and the fetched dividend growth rate.
GrowthRates(f, ticker) ==
    LET drip_data == get_drip_stock_data(Upper(Strip(ticker)))
    IN  {f.annual_stock_price_growth_rate, f.annual_dividend_growth_rate}
        \cup (IF "error" \in DOMAIN drip_data THEN {}
              ELSE {drip_data.annualDividendGrowthRate})

\* The growth factor 1 + g/100 has rational period roots and stays within
\* MaxFactor when compounded once for every year every earlier year's share
\* purchases are carried: the running share count is a sum of dividends over
\* prices, so its denominator collects the price of each year so far.
GrowthFits(g, years, counts) ==
    LET factor == Add(ONE, Percent(g))
        compoundings == (years * (years + 1)) \div 2
    IN  /\ PowCap(Abs(factor[1]), compoundings, MaxFactor) <= MaxFactor
        /\ PowCap(factor[2], compoundings, MaxFactor) <= MaxFactor
        /\ \A n \in counts : ExactPowFrac(factor, n)

\* The requests whose arithmetic the model computes exactly.
Computable(f) ==
    \A k \in 1..Len(f.tickers) :
        \A g \in GrowthRates(f, f.tickers[k]) :
            IsNone(g) \/ IsNone(f.investment_years)
            \/ GrowthFits(g, Years(f), PayoutCounts(f.payout_frequency))

Frequencies == {ANNUAL, SEMI_ANNUAL, QUARTERLY, MONTHLY, WEEKLY, LOWER_QUARTERLY}

\* The ticker field as typed: lower case and padded with blanks as well.
TickerInputs == {<<" ", "k", "o">>, PG, T, HD, GOOG, NEG, NIL, NOPX, ERR, ZZZ}

StockGrowthRates == {0, 300, 1500, 409500, 0 - 100, 0 - 150}
DividendGrowthRates == {0, 300}

\* The single-ticker requests.
Forms ==
    {f \in [initial_investment : {Num(2)},
            investment_years : {Num(y) : y \in 1..MaxYears},
            drip_enabled : {"yes", "no"},
            tickers : {<<t>> : t \in TickerInputs},
            initial_share_price : {Num(1)},
            dividend_yield : {Num(5)},
            annual_dividend_growth_rate : {Num(g) : g \in DividendGrowthRates},
            annual_stock_price_growth_rate : {Num(g) : g \in StockGrowthRates},
            payout_frequency : Frequencies] : Computable(f)}

InitWith(f) ==
    /\ form = f
    /\ handler = "calculator"
    /\ pc = "begin"
    /\ tickers = << >>
    /\ idx = 0
    /\ tk = BlankTk
    /\ sim = BlankSim
    /\ yr = BlankYr
    /\ yearly_breakdown = << >>
    /\ portfolio_values_with_drip_chart = << >>
    /\ shares_owned_with_drip_chart = << >>
    /\ final = BlankFinal
    /\ results = << >>
    /\ comparison_data_for_table = << >>
    /\ out = [h \in {"calculator", "export_csv", "export_pdf"} |-> NoResponse]
    /\ history = << >>
    /\ DashboardStart

Init == \E f \in Forms : InitWith(f)

Next ==
    \/ calculator_begin
    \/ calculator_ticker
    \/ calculator_year
    \/ calculator_payout
    \/ calculator_year_end
    \/ calculator_finish
    \/ calculator_respond
    \/ export_csv_begin
    \/ export_csv_ticker
    \/ export_csv_year
    \/ export_csv_payout
    \/ export_csv_year_end
    \/ export_csv_finish
    \/ export_csv_respond
    \/ export_pdf_begin
    \/ export_pdf_ticker
    \/ export_pdf_year
    \/ export_pdf_payout
    \/ export_pdf_year_end
    \/ export_pdf_finish
    \/ export_pdf_respond

Spec == Init /\ [][Next]_vars

\* ------------------------------------------------------------ a session

\* The frequency the user selects after p when trying them in turn.
NextFrequency(p) ==
    CASE p = ANNUAL -> SEMI_ANNUAL
      [] p = SEMI_ANNUAL -> QUARTERLY
      [] p = QUARTERLY -> MONTHLY
      [] OTHER -> p

\* The user posts the calculator form again, all fields as before except
\* the payout frequency.
Resubmit ==
    /\ handler = "none"
    /\ form.payout_frequency \in {ANNUAL, SEMI_ANNUAL, QUARTERLY}
    /\ LET f == [form EXCEPT !.payout_frequency = NextFrequency(@)]
       IN  Computable(f) /\ form' = f
    /\ handler' = "calculator"
    /\ pc' = "begin"
    /\ out' = [h \in DOMAIN out |-> NoResponse]
    /\ UNCHANGED <<tickers, idx, locals, results, comparison_data_for_table, history,
                   dashboard>>

SessionInit ==
    \E f \in Forms :
        f.payout_frequency = ANNUAL /\ f.drip_enabled = "yes" /\ InitWith(f)

SessionNext == Next \/ Resubmit

\* The same form submitted with one payout frequency after the other.
SessionSpec == SessionInit /\ [][SessionNext]_vars

\* ------------------------------------------------------------ a batch

\* The ticker fields of a batch: simulated, without dividend, failing, blank.
BatchTickerInputs == {<<" ", "k", "o">>, T, GOOG, ERR, <<" ">>}

TickerLists == UNION {[1..n -> BatchTickerInputs] : n \in 1..MaxTickers}

\* The multi-ticker requests.
BatchForms ==
    {f \in [initial_investment : {Num(2)},
            investment_years : {Num(1)},
            drip_enabled : {"yes"},
            tickers : TickerLists,
            initial_share_price : {Num(1)},
            dividend_yield : {Num(5)},
            annual_dividend_growth_rate : {Num(0)},
            annual_stock_price_growth_rate : {Num(0), Num(0 - 150)},
            payout_frequency : {ANNUAL, SEMI_ANNUAL}] : Computable(f)}

BatchInit == \E f \in BatchForms : InitWith(f)

\* One request for several tickers, then its two exports.
BatchSpec == BatchInit /\ [][Next]_vars

\* The user posts the calculator form a second time, all fields as before
\* except the selection of tickers.
Reselect ==
    /\ handler = "none" /\ Len(history) = 1
    /\ \E selection \in TickerLists :
           LET f == [form EXCEPT !.tickers = selection]
           IN  Computable(f) /\ form' = f
    /\ handler' = "calculator"
    /\ pc' = "begin"
    /\ out' = [h \in DOMAIN out |-> NoResponse]
    /\ UNCHANGED <<tickers, idx, locals, results, comparison_data_for_table, history,
                   dashboard>>

RebatchNext == Next \/ Reselect

\* Two requests with the same parameters and two selections of tickers.
RebatchSpec == BatchInit /\ [][RebatchNext]_vars
\* ------------------------------------------------------------ incomplete requests

\* Requests with fields missing (None, an empty list, an empty string), zero
\* or negative, next to the valid value of each field.
IncompleteForms ==
    {f \in [initial_investment : {NONE, Num(0), Num(2)},
            investment_years : {NONE, Num(0), Num(0 - 1), Num(1)},
            drip_enabled : {"yes"},
            tickers : {<< >>, <<T>>},
            initial_share_price : {NONE, Num(0), Num(1)},
            dividend_yield : {NONE, Num(0 - 1), Num(0), Num(5)},
            annual_dividend_growth_rate : {NONE, Num(0)},
            annual_stock_price_growth_rate : {NONE, Num(0)},
            payout_frequency : {<< >>, ANNUAL}] : Computable(f)}

IncompleteInit == \E f \in IncompleteForms : InitWith(f)

\* One request, complete or not, then its two exports.
IncompleteSpec == IncompleteInit /\ [][Next]_vars

\* ------------------------------------------------------------ enclosures

\* A float that no exact fraction of the model can follow (a fourth root of
\* 1.07) is enclosed between two fixed-point bounds: <<lo, hi>> stands for a
\* value v with lo / Scale <= v <= hi / Scale.  Every operation rounds its
\* lower bound down and its upper bound up and then widens the result by one
\* unit on each side, which is more than the rounding error of the float
\* operation it stands for.  All operands are positive.

\* Quotient and remainder of x * y by d, for 0 <= x < d, without forming the
\* product.
RECURSIVE MulDivSmall(_, _, _)
MulDivSmall(x, y, d) ==
    IF y = 0 THEN <<0, 0>>
    ELSE LET half == MulDivSmall(x, y \div 2, d)
             t == 2 * half[2] + (y % 2) * x
         IN  <<2 * half[1] + t \div d, t % d>>

\* floor(x * y / d) and ceil(x * y / d), for x, y >= 0 and d > 0.
MulDivFloor(x, y, d) == (x \div d) * y + MulDivSmall(x % d, y, d)[1]
MulDivCeil(x, y, d) ==
    MulDivFloor(x, y, d) + (IF MulDivSmall(x % d, y, d)[2] = 0 THEN 0 ELSE 1)

\* The enclosure of the float nearest to n / d.
Enclose(n, d) == <<MulDivFloor(n, Scale, d) - 1, MulDivCeil(n, Scale, d) + 1>>

EAdd(x, y) == <<x[1] + y[1] - 1, x[2] + y[2] + 1>>
EMul(x, y) == <<MulDivFloor(x[1], y[1], Scale) - 1, MulDivCeil(x[2], y[2], Scale) + 1>>
EDiv(x, y) == <<MulDivFloor(x[1], Scale, y[2]) - 1, MulDivCeil(x[2], Scale, y[1]) + 1>>
\* x - 1 and 1 + x
ELessOne(x) == <<x[1] - Scale - 1, x[2] - Scale + 1>>
EPlusOne(x) == <<x[1] + Scale - 1, x[2] + Scale + 1>>

\* x ** k for an int k >= 0.
RECURSIVE EPow(_, _)
EPow(x, k) == IF k = 0 THEN <<Scale, Scale>> ELSE EMul(x, EPow(x, k - 1))

\* Bounds of r ** n in fixed point, for one bound r.
RECURSIVE PowFloor(_, _)
PowFloor(r, n) == IF n = 0 THEN Scale ELSE MulDivFloor(r, PowFloor(r, n - 1), Scale)
RECURSIVE PowCeil(_, _)
PowCeil(r, n) == IF n = 0 THEN Scale ELSE MulDivCeil(r, PowCeil(r, n - 1), Scale)

\* The largest r in lo..hi known to satisfy r ** n <= x (it holds at lo).
RECURSIVE RootBelow(_, _, _, _)
RootBelow(x, n, lo, hi) ==
    IF hi - lo <= 1 THEN lo
    ELSE LET mid == (lo + hi) \div 2
         IN  IF PowCeil(mid, n) <= x
             THEN RootBelow(x, n, mid, hi)
             ELSE RootBelow(x, n, lo, mid)

\* The smallest r in lo..hi known to satisfy r ** n >= x (it holds at hi).
RECURSIVE RootAbove(_, _, _, _)
RootAbove(x, n, lo, hi) ==
    IF hi - lo <= 1 THEN hi
    ELSE LET mid == (lo + hi) \div 2
         IN  IF PowFloor(mid, n) >= x
             THEN RootAbove(x, n, lo, mid)
             ELSE RootAbove(x, n, mid, hi)

\* x ** (1/n) for x >= 1.
ERoot(x, n) ==
    <<RootBelow(x[1], n, Scale, x[1] + 1) - 1, RootAbove(x[2], n, Scale - 1, x[2]) + 1>>

\* The enclosure of an exact fraction of the model.
EncloseRat(x) == Enclose(x[1], x[2])

\* Dividends spent on nothing.
ReinvestedNothing(dividends, price) == <<0, 0>>

\* dividends_received_this_period_drip / current_stock_price_for_reinvestment
Reinvested(dividends, price) == EDiv(dividends, price)

\* The scenario of the spec's worked example, after the snapshot is
\* resolved: price 100 (fetched and entered), yield 2.5%, dividend growth 5%,
\* stock growth 7%, 10000 invested for 10 years.
ScenarioForm(payout_frequency, drip_enabled) ==
    [initial_investment |-> Num(10000),
     investment_years |-> Num(10),
     drip_enabled |-> drip_enabled,
     tickers |-> <<KO>>,
     initial_share_price |-> Num(100),
     dividend_yield |-> Rat(5, 2),
     annual_dividend_growth_rate |-> Num(5),
     annual_stock_price_growth_rate |-> Num(7),
     payout_frequency |-> payout_frequency]

\* The calculator at its year loop with enclosures for floats: the resolved
\* inputs and the initial simulation variables.
ScenarioInit ==
    \E payout_frequency \in {ANNUAL, SEMI_ANNUAL, QUARTERLY, MONTHLY},
       drip_enabled \in {"yes", "no"} :
        LET f == ScenarioForm(payout_frequency, drip_enabled)
            initial_investment == EncloseRat(f.initial_investment)
            current_price_calc == EncloseRat(f.initial_share_price)
            div_yield_decimal_calc == EDiv(EncloseRat(f.dividend_yield), Enclose(100, 1))
            annual_dividend_per_share_start ==
                EMul(current_price_calc, div_yield_decimal_calc)
        IN  /\ form = f
            /\ handler = "calculator"
            /\ pc = "year"
            /\ tickers = f.tickers
            /\ idx = 1
            /\ tk = [ticker_symbol |-> KO,
                     current_price_calc |-> current_price_calc,
                     div_yield_decimal_calc |-> div_yield_decimal_calc,
                     div_growth_decimal_calc |->
                         EDiv(EncloseRat(f.annual_dividend_growth_rate), Enclose(100, 1)),
                     stock_price_growth_decimal_calc |->
                         EDiv(EncloseRat(f.annual_stock_price_growth_rate),
                              Enclose(100, 1)),
                     annual_dividend_per_share_start |-> annual_dividend_per_share_start]
            /\ sim = [year_iter |-> 1,
                      current_shares_drip |-> EDiv(initial_investment, current_price_calc),
                      current_shares_no_drip |->
                          EDiv(initial_investment, current_price_calc),
                      current_stock_price_sim |-> current_price_calc,
                      annual_dividend_per_share_sim |-> annual_dividend_per_share_start,
                      total_dividends_reinvested_drip |-> <<0, 0>>,
                      total_dividends_received_no_drip |-> <<0, 0>>]
            /\ yr = BlankYr
            /\ yearly_breakdown = << >>
            /\ portfolio_values_with_drip_chart = <<[x |-> 0, y |-> initial_investment]>>
            /\ shares_owned_with_drip_chart =
                   <<[x |-> 0, y |-> EDiv(initial_investment, current_price_calc)]>>
            /\ final = BlankFinal
            /\ results = << >>
            /\ comparison_data_for_table = << >>
            /\ out = [h \in {"calculator", "export_csv", "export_pdf"} |-> NoResponse]
            /\ history = << >>
            /\ DashboardStart

\* The head of one pass of the year loop.
scenario_year ==
    /\ handler = "calculator" /\ pc = "year" /\ sim.year_iter <= Years(form)
    /\ LET number_of_payouts == PayoutsDict(form.payout_frequency)
           dividends_received_this_year_no_drip ==
               EMul(sim.current_shares_no_drip, sim.annual_dividend_per_share_sim)
       IN  /\ yr' = [year |-> sim.year_iter,
                     i |-> 0,
                     number_of_payouts |-> number_of_payouts,
                     shares_at_start_of_year_drip |-> sim.current_shares_drip,
                     stock_price_at_start_of_year |-> sim.current_stock_price_sim,
                     annual_dividend_per_share_at_start_of_year |->
                         sim.annual_dividend_per_share_sim,
                     dividends_received_this_year_drip |-> <<0, 0>>,
                     reinvested_shares_this_year_drip |-> <<0, 0>>,
                     period_stock_price_growth_rate |->
                         ELessOne(ERoot(EPlusOne(tk.stock_price_growth_decimal_calc),
                                        number_of_payouts)),
                     period_dividend_growth_rate |->
                         ELessOne(ERoot(EPlusOne(tk.div_growth_decimal_calc),
                                        number_of_payouts))]
           /\ sim' = [sim EXCEPT !.total_dividends_received_no_drip =
                          EAdd(@, dividends_received_this_year_no_drip)]
    /\ pc' = IF form.drip_enabled = "yes" THEN "payout" ELSE "yearend"
    /\ UNCHANGED <<form, handler, tickers, idx, tk, yearly_breakdown,
                   portfolio_values_with_drip_chart, shares_owned_with_drip_chart,
                   final, results, comparison_data_for_table, out, history, dashboard>>

\* One pass of `for i in range(number_of_payouts)`.
scenario_payout ==
    /\ handler = "calculator" /\ pc = "payout" /\ yr.i < yr.number_of_payouts
    /\ LET current_stock_price_for_reinvestment ==
               EMul(yr.stock_price_at_start_of_year,
                    EPow(EPlusOne(yr.period_stock_price_growth_rate), yr.i))
           current_dividend_per_share_for_period ==
               EMul(EDiv(yr.annual_dividend_per_share_at_start_of_year,
                         Enclose(yr.number_of_payouts, 1)),
                    EPow(EPlusOne(yr.period_dividend_growth_rate), yr.i))
           dividends_received_this_period_drip ==
               EMul(yr.shares_at_start_of_year_drip, current_dividend_per_share_for_period)
           shares_bought_this_period ==
               IF current_stock_price_for_reinvestment[1] > 0
               THEN Reinvested(dividends_received_this_period_drip,
                               current_stock_price_for_reinvestment)
               ELSE <<0, 0>>
       IN  /\ sim' = [sim EXCEPT !.current_shares_drip = EAdd(@, shares_bought_this_period)]
           /\ yr' = [yr EXCEPT
                  !.i = @ + 1,
                  !.dividends_received_this_year_drip =
                      EAdd(@, dividends_received_this_period_drip),
                  !.reinvested_shares_this_year_drip = EAdd(@, shares_bought_this_period)]
    /\ pc' = IF yr.i + 1 < yr.number_of_payouts THEN "payout" ELSE "yearend"
    /\ UNCHANGED <<form, handler, tickers, idx, tk, yearly_breakdown,
                   portfolio_values_with_drip_chart, shares_owned_with_drip_chart,
                   final, results, comparison_data_for_table, out, history, dashboard>>

\* The end of one pass of the year loop: the totals, next year's price and
\* dividend, the values and the chart points.
scenario_year_end ==
    /\ handler = "calculator" /\ pc = "yearend"
    /\ LET dividends_received_this_year_drip ==
               IF form.drip_enabled = "yes"
               THEN yr.dividends_received_this_year_drip
               ELSE EMul(yr.shares_at_start_of_year_drip,
                         yr.annual_dividend_per_share_at_start_of_year)
           current_stock_price_sim ==
               EMul(yr.stock_price_at_start_of_year,
                    EPlusOne(tk.stock_price_growth_decimal_calc))
           portfolio_value_end_of_year_drip ==
               EMul(sim.current_shares_drip, current_stock_price_sim)
       IN  /\ sim' = [sim EXCEPT
                  !.year_iter = @ + 1,
                  !.total_dividends_reinvested_drip =
                      EAdd(@, dividends_received_this_year_drip),
                  !.current_stock_price_sim = current_stock_price_sim,
                  !.annual_dividend_per_share_sim =
                      EMul(yr.annual_dividend_per_share_at_start_of_year,
                           EPlusOne(tk.div_growth_decimal_calc))]
           /\ portfolio_values_with_drip_chart' =
                  Append(portfolio_values_with_drip_chart,
                         [x |-> yr.year, y |-> portfolio_value_end_of_year_drip])
           /\ shares_owned_with_drip_chart' =
                  Append(shares_owned_with_drip_chart,
                         [x |-> yr.year, y |-> sim.current_shares_drip])
    /\ pc' = "year"
    /\ UNCHANGED <<form, handler, tickers, idx, tk, yr, yearly_breakdown,
                   final, results, comparison_data_for_table, out, history, dashboard>>

\* After the year loop: the final values.
scenario_finish ==
    /\ handler = "calculator" /\ pc = "year" /\ sim.year_iter > Years(form)
    /\ LET last == Len(portfolio_values_with_drip_chart)
           shares_no_drip ==
               EDiv(EncloseRat(form.initial_investment),
                    EncloseRat(form.initial_share_price))
           final_stock_price_at_end ==
               EMul(tk.current_price_calc,
                    EPow(EPlusOne(tk.stock_price_growth_decimal_calc), Years(form)))
       IN  final' = [final_investment_value_with_drip |->
                         portfolio_values_with_drip_chart[last].y,
                     final_shares_with_drip |-> shares_owned_with_drip_chart[last].y,
                     final_shares_no_drip |-> shares_no_drip,
                     final_value_no_drip |->
                         EAdd(EMul(shares_no_drip, final_stock_price_at_end),
                              sim.total_dividends_received_no_drip),
                     yield_on_cost |-> <<0, 0>>]
    /\ idx' = idx + 1
    /\ pc' = "ticker"
    /\ UNCHANGED <<form, handler, tickers, tk, sim, yr, yearly_breakdown,
                   portfolio_values_with_drip_chart, shares_owned_with_drip_chart,
                   results, comparison_data_for_table, out, history, dashboard>>

ScenarioNext ==
    \/ scenario_year
    \/ scenario_payout
    \/ scenario_year_end
    \/ scenario_finish

\* The year loop of the worked example, float by float, in enclosures.
ScenarioSpec == ScenarioInit /\ [][ScenarioNext]_vars

\* ------------------------------------------------------------ properties

\* The per-year figures of a year record.
Figures(row) ==
    <<row.Year, row.SharesOwnedStart, row.StockPriceStart, row.AnnualDividendPerShare,
      row.DividendsReceivedYear, row.ReinvestedSharesYear, row.SharesOwnedEnd,
      row.PortfolioValueEnd>>

FiguresOf(rows) == [k \in 1..Len(rows) |-> Figures(rows[k])]

RECURSIVE Concat(_)
Concat(seqs) == IF Len(seqs) = 0 THEN << >> ELSE Head(seqs) \o Concat(Tail(seqs))

\* The figures of the years 1..N on the page, in the CSV file and in the PDF
\* file, ticker after ticker.
CalculatorFigures ==
    LET page == out["calculator"].results
    IN  Concat([k \in 1..Len(page) |->
                  IF page[k].error = NONE
                  THEN FiguresOf(page[k].yearly_breakdown_display)
                  ELSE << >>])

CsvFigures ==
    FiguresOf(SelectSeq(out["export_csv"].results,
                        LAMBDA row : "Error" \notin DOMAIN row))

PdfFigures ==
    LET story == out["export_pdf"].results
    IN  Concat([k \in 1..Len(story) |->
                  IF "table" \in DOMAIN story[k]
                  THEN FiguresOf(SelectSeq(story[k].table, LAMBDA row : row.Year >= 1))
                  ELSE << >>])

AllServed == handler = "none" /\ \A h \in DOMAIN out : out[h].status = "200"

\* C1: for the same form and the same market data, the page, the CSV export
\* and the PDF export show the same figures for every year 1..N.
C1_SameYearlyFigures ==
    (AllServed /\ Len(CalculatorFigures) > 0 /\ Len(PdfFigures) > 0)
    => CalculatorFigures = CsvFigures /\ CalculatorFigures = PdfFigures

\* A served calculator request whose single ticker was simulated.
Simulated(h) ==
    /\ h.response.status = "200"
    /\ Len(h.response.results) = 1
    /\ h.response.results[1].error = NONE

\* C2: with DRIP enabled and both growth rates positive, the same form
\* submitted with more payouts per year ends with a strictly greater final
\* DRIP portfolio value.
C2_MorePayoutsMoreValue ==
    \A a, b \in 1..Len(history) :
        ( /\ Simulated(history[a]) /\ Simulated(history[b])
          /\ history[a].form.drip_enabled = "yes"
          /\ PayoutsDict(history[a].form.payout_frequency)
                 < PayoutsDict(history[b].form.payout_frequency)
          /\ Positive(history[a].tk.div_growth_decimal_calc)
          /\ Positive(history[a].tk.stock_price_growth_decimal_calc) )
        => Lt(history[a].final.final_investment_value_with_drip,
              history[b].final.final_investment_value_with_drip)

\* The year loop and its payout loop.
InYear == pc \in {"year", "payout", "yearend"}

\* C3: with DRIP enabled, the dividends of a payout period are the running
\* share count, shares bought earlier in the year included, times the
\* dividend per share of the period.
C3_DividendsOnRunningShares ==
    [][(handler \in {"calculator", "export_csv"} /\ handler' = handler
        /\ pc = "payout" /\ pc' \in {"payout", "yearend"})
       => yr'.dividends_received_this_period_drip =
              Mul(sim.current_shares_drip, yr'.current_dividend_per_share_for_period)]_vars

\* C4: the no-DRIP portfolio value of the last pass of the year loop equals
\* the closed-form value computed after the loop.
C4_LoopEqualsClosedForm ==
    [][(handler = "calculator" /\ pc = "year" /\ pc' = "ticker")
       => final'.final_value_no_drip = yr.portfolio_value_end_of_year_no_drip]_vars

\* C4 happens: a ticker simulated over several years with a stock price that
\* changes has its final values computed.
C4_Witness ==
    /\ handler = "calculator" /\ pc = "ticker" /\ idx = 2
    /\ Years(form) >= 2 /\ yr.year = Years(form)
    /\ ~IsZero(tk.stock_price_growth_decimal_calc)
    /\ Positive(final.final_value_no_drip)
    /\ final.final_value_no_drip = yr.portfolio_value_end_of_year_no_drip

\* C5: throughout the simulation the no-DRIP share count, the one the yearly
\* no-DRIP dividends are computed on, is initial_investment /
\* initial_share_price, the reported final no-DRIP share count.
C5_NoDripSharesConstant ==
    (handler = "calculator" /\ InYear)
    => sim.current_shares_no_drip =
           Div(form.initial_investment, form.initial_share_price)

\* C6: while the dividend per share and the stock price are positive, no
\* payout period and no year end lowers the running DRIP share count.
C6_DripSharesNonDecreasing ==
    [][(InYear /\ InYear' /\ handler' = handler
        /\ (pc = "payout" =>
              /\ Positive(yr'.current_dividend_per_share_for_period)
              /\ Positive(yr'.current_stock_price_for_reinvestment)))
       => Ge(sim'.current_shares_drip, sim.current_shares_drip)]_vars

\* C6 happens: a second payout period of a year has bought shares at a
\* positive price from a positive dividend.
C6_Witness ==
    /\ handler = "calculator" /\ InYear /\ yr.i >= 2
    /\ Positive(yr.current_dividend_per_share_for_period)
    /\ Positive(yr.current_stock_price_for_reinvestment)
    /\ Positive(yr.shares_bought_this_period)
    /\ Gt(sim.current_shares_drip, yr.shares_at_start_of_year_drip)

\* C7: in the three view functions, a ticker whose starting annual dividend
\* per share is 0 never enters the year loop.
C7_NoSimulationWithoutDividend ==
    InYear => ~IsZero(tk.annual_dividend_per_share_start)

\* Market data with some of price, yield and dividend growth missing.
PartialData(m) ==
    /\ ~m.raises /\ DOMAIN m.info /= {}
    /\ \/ IsNone(Get(m.info, "currentPrice"))
       \/ IsNone(DividendYield(m.info, Get(m.info, "currentPrice")))
       \/ Cardinality({m.dividends[k][1] : k \in 1..Len(m.dividends)}) < 2

\* C8: a ticker whose market data is partial is simulated, each missing value
\* replaced by the form's (when the price and the yield so resolved give a
\* dividend).
C8_PartialDataFallsBack ==
    LET m == Market(Upper(Strip(form.tickers[1])))
        price == OrElse(Get(m.info, "currentPrice"), form.initial_share_price)
        yield == OrElse(DividendYield(m.info, Get(m.info, "currentPrice")),
                        Percent(form.dividend_yield))
    IN  (handler = "calculator" /\ pc = "ticker" /\ idx = 2
         /\ Len(form.tickers) = 1 /\ PartialData(m) /\ ~IsZero(Mul(price, yield)))
        => /\ Len(results) = 1 /\ results[1].error = NONE
           /\ tk.current_price_calc = price
           /\ tk.div_yield_decimal_calc = yield

\* C9: in the three view functions the payouts per year of a simulated year
\* are 1, 2, 4, 12 for Annual, Semi-Annual, Quarterly, Monthly and 1 for any
\* other value.
C9_PayoutsPerYear ==
    LET frequency == form.payout_frequency
        payouts ==
            CASE frequency = <<"A", "n", "n", "u", "a", "l">> -> 1
              [] frequency = <<"S", "e", "m", "i", "-", "A", "n", "n", "u", "a", "l">> -> 2
              [] frequency = <<"Q", "u", "a", "r", "t", "e", "r", "l", "y">> -> 4
              [] frequency = <<"M", "o", "n", "t", "h", "l", "y">> -> 12
              [] OTHER -> 1
    IN  (pc \in {"payout", "yearend"}) => yr.number_of_payouts = payouts

\* A ticker that fails: its fetch returns an error or its starting dividend
\* is zero.
Fails(ticker_symbol) ==
    LET drip_data == get_drip_stock_data(ticker_symbol)
    IN  \/ "error" \in DOMAIN drip_data
        \/ IsZero(Resolved(ticker_symbol, drip_data, form).annual_dividend_per_share_start)

\* C10: a calculator request for several tickers that passed validation and
\* holds a failing ticker is served with exactly one entry per non-blank
\* ticker, in request order, an error entry for each failing ticker.
C10_OneEntryPerTicker ==
    LET selected == KeepNonBlank(form.tickers)
        page == out["calculator"]
    IN  (page.status /= "none" /\ Len(form.tickers) > 1
         /\ ValidationErrors(form) = << >>
         /\ \E k \in 1..Len(selected) : Fails(selected[k]))
        => /\ page.status = "200"
           /\ Len(page.results) = Len(selected)
           /\ \A k \in 1..Len(selected) :
                 /\ page.results[k].ticker = selected[k]
                 /\ Fails(selected[k]) <=> page.results[k].error /= NONE

\* C11: a served batch one of whose entries carries an error has no
\* comparison table.
C11_NoTableWithErrors ==
    LET page == out["calculator"]
    IN  (/\ page.status = "200"
         /\ \E k \in 1..Len(page.results) : page.results[k].error /= NONE)
        => page.comparison_table = NONE

\* C11 happens: a batch with a failed ticker and a simulated ticker, which
\* has its row for the table, is served without the table.
C11_Witness ==
    LET page == out["calculator"]
    IN  /\ page.status = "200" /\ Len(page.results) > 1
        /\ \E k \in 1..Len(page.results) : page.results[k].error /= NONE
        /\ \E k \in 1..Len(page.results) : page.results[k].error = NONE
        /\ page.comparison_table = NONE

\* The required fields of a calculator POST that are missing or out of range.
FailingFields(f) ==
    {name \in {"initial_investment", "investment_years", "tickers",
               "initial_share_price", "dividend_yield", "annual_dividend_growth_rate",
               "annual_stock_price_growth_rate", "payout_frequency"} :
        CASE name = "initial_investment" ->
                 IsNone(f.initial_investment) \/ ~Positive(f.initial_investment)
          [] name = "investment_years" ->
                 IsNone(f.investment_years) \/ ~Positive(f.investment_years)
          [] name = "tickers" -> Len(f.tickers) = 0
          [] name = "initial_share_price" ->
                 IsNone(f.initial_share_price) \/ ~Positive(f.initial_share_price)
          [] name = "dividend_yield" ->
                 IsNone(f.dividend_yield) \/ Lt(f.dividend_yield, ZERO)
          [] name = "annual_dividend_growth_rate" -> IsNone(f.annual_dividend_growth_rate)
          [] name = "annual_stock_price_growth_rate" ->
                 IsNone(f.annual_stock_price_growth_rate)
          [] name = "payout_frequency" -> Len(f.payout_frequency) = 0}

\* C12: a calculator POST with a missing or non-positive required field never
\* reaches the ticker loop (nothing is fetched, nothing is simulated), and
\* its results are one error entry, each with its own message, per failing
\* field.
C12_RejectedBeforeEngine ==
    LET failing == FailingFields(form)
        rejected(rs) ==
            /\ Len(rs) = Cardinality(failing)
            /\ \A k \in 1..Len(rs) : DOMAIN rs[k] = {"error"}
            /\ \A j, k \in 1..Len(rs) : rs[j] = rs[k] => j = k
    IN  failing /= {} =>
            /\ handler = "calculator" =>
                    /\ pc \in {"begin", "respond"}
                    /\ tk = BlankTk /\ sim = BlankSim /\ yearly_breakdown = << >>
                    /\ pc = "respond" => rejected(results)
            /\ out["calculator"] /= NoResponse =>
                    /\ out["calculator"].status = "200"
                    /\ rejected(out["calculator"].results)
                    /\ out["calculator"].comparison_table = NONE

\* C12 happens: a request failing on several fields has been answered with
\* its error entries.
C12_Witness ==
    /\ Cardinality(FailingFields(form)) > 1
    /\ out["calculator"] /= NoResponse
    /\ Len(out["calculator"].results) = Cardinality(FailingFields(form))

\* The form lacks the ticker list, the investment amount or the duration.
LacksExportData(f) ==
    Len(f.tickers) = 0 \/ IsNone(f.initial_investment) \/ IsNone(f.investment_years)

\* C13: an export of a form that lacks the ticker list, the amount or the
\* duration never reaches its ticker loop (nothing is fetched, nothing is
\* simulated) and is answered with 400.
C13_ExportRejected ==
    LacksExportData(form) =>
        \A h \in {"export_csv", "export_pdf"} :
            /\ handler = h =>
                    /\ pc = "begin"
                    /\ tk = BlankTk /\ sim = BlankSim /\ yearly_breakdown = << >>
            /\ out[h] /= NoResponse => out[h] = [status |-> "400"]

\* C13 happens: both exports of a form without its duration were answered
\* with 400.
C13_Witness ==
    /\ IsNone(form.investment_years)
    /\ form.tickers /= << >> /\ ~IsNone(form.initial_investment)
    /\ out["export_csv"].status = "400" /\ out["export_pdf"].status = "400"

\* C14: no request ends in an exception: none of the three handlers answers
\* with a server error, whatever the price, the growth rates and the payout
\* frequency.
C14_NeverRaises ==
    \A h \in DOMAIN out : out[h].status /= "500"

\* C16: for every simulated ticker the portfolio-value series starts with
\* (0, initialInvestment) and the share-count series with
\* (0, initialInvestment / effectivePrice), during the simulation and in the
\* entry handed to the page.
C16_ChartsStartAtYearZero ==
    /\ (handler = "calculator" /\ pc \in {"year", "payout", "yearend"}) =>
            /\ Len(portfolio_values_with_drip_chart) >= 1
            /\ portfolio_values_with_drip_chart[1] = [x |-> 0, y |-> form.initial_investment]
            /\ Len(shares_owned_with_drip_chart) >= 1
            /\ shares_owned_with_drip_chart[1] =
                   [x |-> 0, y |-> RMul(form.initial_investment, RInv(tk.current_price_calc))]
    /\ out["calculator"].status = "200" =>
            \A k \in 1..Len(out["calculator"].results) :
                LET r == out["calculator"].results[k]
                IN  r.error = NONE =>
                        /\ Len(r.drip_portfolio_value_chart_data) >= 1
                        /\ r.drip_portfolio_value_chart_data[1] =
                               [x |-> 0, y |-> form.initial_investment]
                        /\ Len(r.drip_shares_owned_chart_data) >= 1
                        /\ r.drip_shares_owned_chart_data[1].x = 0
                        /\ Fmt(r.drip_shares_owned_chart_data[1].y) = r.initial_shares

\* C16 happens: a simulation of two years with several payouts a year and a
\* fetched price different from the entered one has been served.
C16_Witness ==
    /\ out["calculator"].status = "200"
    /\ Len(out["calculator"].results) = 1
    /\ out["calculator"].results[1].error = NONE
    /\ Len(out["calculator"].results[1].drip_shares_owned_chart_data) = 3
    /\ out["calculator"].results[1].drip_shares_owned_chart_data[1].y
           /= form.initial_investment
    /\ PayoutsDict(form.payout_frequency) > 1

\* C19: the yearly breakdown of every simulated ticker holds exactly N
\* records with Year = 1, 2, ..., N in that order, and both chart series hold
\* exactly N + 1 points with x = 0, 1, ..., N in that order, N being the
\* investment duration.
C19_OneRecordPerYear ==
    out["calculator"].status = "200" =>
        \A k \in 1..Len(out["calculator"].results) :
            LET r == out["calculator"].results[k]
                N == form.investment_years[1]
            IN  r.error = NONE =>
                    /\ [y \in 1..Len(r.yearly_breakdown_display) |->
                            r.yearly_breakdown_display[y].Year] = [y \in 1..N |-> y]
                    /\ [p \in 1..Len(r.drip_portfolio_value_chart_data) |->
                            r.drip_portfolio_value_chart_data[p].x] = [p \in 1..N + 1 |-> p - 1]
                    /\ [p \in 1..Len(r.drip_shares_owned_chart_data) |->
                            r.drip_shares_owned_chart_data[p].x] = [p \in 1..N + 1 |-> p - 1]

\* C19 happens: a simulation over the longest duration has been served with
\* a record for its last year.
C19_Witness ==
    /\ out["calculator"].status = "200"
    /\ form.investment_years = Num(MaxYears)
    /\ Len(out["calculator"].results) = 1
    /\ out["calculator"].results[1].error = NONE
    /\ Len(out["calculator"].results[1].yearly_breakdown_display) = MaxYears
    /\ out["calculator"].results[1].yearly_breakdown_display[MaxYears].Year = MaxYears

\* C20: the yield on cost of every simulated ticker is its starting annual
\* dividend per share divided by the entered initial share price, times 100.
C20_YieldOnCost ==
    \A k \in 1..Len(history) :
        Simulated(history[k]) =>
            history[k].final.yield_on_cost =
                RMul(RMul(history[k].tk.annual_dividend_per_share_start,
                          RInv(history[k].form.initial_share_price)), Num(100))

\* C20, amended: the yield on cost of a simulated ticker with a positive
\* starting dividend per share is that dividend divided by the entered
\* initial share price, times 100, and it is 0 when the starting dividend
\* per share is negative; the entry shows it with two decimals.
C20_YieldOnCostOfPositiveDividend ==
    \A k \in 1..Len(history) :
        LET h == history[k]
            dps == h.tk.annual_dividend_per_share_start
            expected == IF dps[1] > 0
                        THEN RMul(RMul(dps, RInv(h.form.initial_share_price)), Num(100))
                        ELSE ZERO
        IN  Simulated(h) =>
                /\ h.final.yield_on_cost = expected
                /\ h.response.results[1].yield_on_cost = Round2(expected)

\* C20 happens: a ticker whose fetched price differs from the entered price
\* has been served with a yield on cost above 0.
C20_Witness ==
    \E k \in 1..Len(history) :
        /\ Simulated(history[k])
        /\ history[k].tk.current_price_calc /= history[k].form.initial_share_price
        /\ history[k].final.yield_on_cost[1] > 0

\* The keys of a cache entry.
EntryKeys ==
    {"symbol", "company_name", "logo", "current_price", "high_price", "low_price",
     "open_price", "prev_close_price", "change", "percentage_change", "timestamp"}

\* The entry is the one some single fetch of its symbol writes.
WrittenByOneFetch(entry) ==
    \E quote_response \in QuoteResponses, profile_response \in ProfileResponses,
       now \in Clock :
        /\ quote_response.error = "none" /\ profile_response.error = "none"
        /\ \A key \in {"c", "h", "l", "o", "pc"} : ~IsNone(Get(quote_response.data, key))
        /\ entry = Entry(entry.symbol, quote_response.data, profile_response.data, now)

\* C17: at most one thread holds data_lock; the updater holds it while it
\* writes the cache and a request holds it while it reads the cache, so the
\* two never overlap; what a request has read so far is what the cache holds,
\* at most one entry per symbol, each with all its keys and written by a
\* single fetch.
C17_CacheUnderLock ==
    /\ Cardinality(data_lock) <= 1
    /\ updater_thread.pc \in {"write", "release"} => "updater_thread" \in data_lock
    /\ \A r \in RequestThreads :
           api_stocks[r].pc = "jsonify" =>
               LET body == api_stocks[r].body
               IN  /\ r \in data_lock
                   /\ Len(body) <= Len(latest_stock_data)
                   /\ \A k \in 1..Len(body) :
                          /\ body[k] = latest_stock_data[k]
                          /\ DOMAIN body[k] = EntryKeys
                          /\ WrittenByOneFetch(body[k])
                   /\ \A j, k \in 1..Len(body) : body[j].symbol = body[k].symbol => j = k

\* C17 happens: a request has read an entry of every symbol while the
\* updater waits for the lock with the next entry to write.
C17_Witness ==
    /\ updater_thread.pc = "acquire"
    /\ \E r \in RequestThreads :
           /\ api_stocks[r].pc = "jsonify"
           /\ Len(api_stocks[r].body) = Len(STOCK_SYMBOLS)
           /\ updater_thread.fetch.quote_data.c /= api_stocks[r].body[updater_thread.i].current_price

\* C18: a fetch that fails leaves the cache as it is: the step that ends a
\* fetch in one of its failure messages changes nothing in the cache, and the
\* cache changes only when the updater writes the entry of a fetch whose
\* quote has all its prices, and then only in the entry of that symbol.
C18_FailedFetchKeepsCache ==
    [][/\ (updater_thread.pc \in {"fetch", "acquire", "write"}
           /\ updater_thread'.pc = "sleep")
          => latest_stock_data' = latest_stock_data
       /\ latest_stock_data' /= latest_stock_data =>
              /\ updater_thread.pc = "write"
              /\ \A key \in {"c", "h", "l", "o", "pc"} :
                     ~IsNone(Get(updater_thread.fetch.quote_data, key))
              /\ Len(latest_stock_data') >= Len(latest_stock_data)
              /\ \A k \in 1..Len(latest_stock_data) :
                     latest_stock_data[k].symbol /= STOCK_SYMBOLS[updater_thread.i]
                         => latest_stock_data'[k] = latest_stock_data[k]
              /\ \E k \in 1..Len(latest_stock_data') :
                     /\ latest_stock_data'[k].symbol = STOCK_SYMBOLS[updater_thread.i]
                     /\ WrittenByOneFetch(latest_stock_data'[k])
                     /\ latest_stock_data'[k].current_price =
                            Round2(updater_thread.fetch.quote_data.c)]_vars

\* C18 happens: a fetch of a symbol has just failed inside the cache write
\* (a price missing), the cache still holds the entry of an earlier fetch of
\* that symbol, and a request is reading it.
C18_Witness ==
    /\ updater_thread.pc = "sleep"
    /\ updater_thread.printed = UNEXPECTED_ERROR
    /\ \E k \in 1..Len(latest_stock_data) :
           /\ latest_stock_data[k].symbol = STOCK_SYMBOLS[updater_thread.i]
           /\ \E r \in RequestThreads :
                  /\ api_stocks[r].pc = "jsonify"
                  /\ Len(api_stocks[r].body) >= k

\* C15: in the worked example (10000 invested for 10 years at price 100,
\* yield 2.5%, dividend growth 5%, stock growth 7%, Quarterly, DRIP on) the
\* starting annual dividend per share is 2.50 and the final DRIP portfolio
\* value is strictly greater than the final no-DRIP value: the lower bound of
\* the first lies above the upper bound of the second.
C15_DripBeatsNoDrip ==
    (form = ScenarioForm(QUARTERLY, "yes") /\ pc = "ticker") =>
        /\ 1000 * tk.annual_dividend_per_share_start[1] > 2495 * Scale
        /\ 1000 * tk.annual_dividend_per_share_start[2] < 2505 * Scale
        /\ final.final_investment_value_with_drip[1] > final.final_value_no_drip[2]

\* C15 happens: the worked example has run its ten years of four payouts
\* and its final DRIP value is enclosed within a hundredth of its size.
C15_Witness ==
    /\ form = ScenarioForm(QUARTERLY, "yes") /\ pc = "ticker"
    /\ Len(portfolio_values_with_drip_chart) = 11
    /\ final.final_investment_value_with_drip[1] > 0
    /\ 100 * (final.final_investment_value_with_drip[2]
              - final.final_investment_value_with_drip[1])
           < final.final_investment_value_with_drip[1]

\* The years of the running ticker's simulation that have ended.
YearsEnded == IF pc = "year" THEN sim.year_iter - 1 ELSE sim.year_iter - 2

\* C21: the annual growth is applied once per simulated year, after the payout
\* periods: when k years have ended the running stock price is the effective
\* price times (1 + stock growth) ** k and the running annual dividend per
\* share is the starting dividend times (1 + dividend growth) ** k, whatever
\* the payout frequency and whether or not DRIP is enabled; the prices of the
\* payout periods never reach the running price.
C21_GrowthOncePerYear ==
    (handler = "calculator" /\ InYear) =>
        /\ sim.current_stock_price_sim =
               Mul(tk.current_price_calc,
                   Pow(Add(ONE, tk.stock_price_growth_decimal_calc), YearsEnded))
        /\ sim.annual_dividend_per_share_sim =
               Mul(tk.annual_dividend_per_share_start,
                   Pow(Add(ONE, tk.div_growth_decimal_calc), YearsEnded))

\* Two years have ended, each with several payout periods and reinvestment,
\* under a stock growth and a dividend growth that are not 0.
C21_Witness ==
    /\ handler = "calculator" /\ pc = "year" /\ YearsEnded = 2
    /\ form.drip_enabled = "yes"
    /\ PayoutsDict(form.payout_frequency) > 1
    /\ ~IsZero(tk.stock_price_growth_decimal_calc)
    /\ ~IsZero(tk.div_growth_decimal_calc)
    /\ sim.current_shares_drip /= Div(form.initial_investment, tk.current_price_calc)

\* Two years have ended without DRIP under growths that are not 0.
C21_WitnessNoDrip ==
    /\ handler = "calculator" /\ pc = "year" /\ YearsEnded = 2
    /\ form.drip_enabled /= "yes"
    /\ PayoutsDict(form.payout_frequency) > 1
    /\ ~IsZero(tk.stock_price_growth_decimal_calc)
    /\ ~IsZero(tk.div_growth_decimal_calc)

\* How a handler writes a figure into a record of the breakdown: export_csv
\* keeps the float, the page formats it.
Shown(x) == IF handler = "export_csv" THEN x ELSE Fmt(x)

\* C22: with DRIP disabled no shares are bought.  Throughout the year loop the
\* DRIP-scenario share count stays initial_investment / current_price_calc,
\* and every year's record has 0 reinvested shares, that count as shares
\* owned at the start and at the end, and as dividends the count times the
\* year's start-of-year annual dividend per share, whatever the payout
\* frequency.
C22_NoDripBuysNothing ==
    (handler \in {"calculator", "export_csv"} /\ InYear
     /\ form.drip_enabled /= "yes") =>
        LET initial_shares == Div(form.initial_investment, tk.current_price_calc)
            dividend_at_start(year) ==
                Mul(tk.annual_dividend_per_share_start,
                    Pow(Add(ONE, tk.div_growth_decimal_calc), year - 1))
        IN  /\ sim.current_shares_drip = initial_shares
            /\ Len(yearly_breakdown) = YearsEnded
            /\ \A year \in DOMAIN yearly_breakdown :
                   /\ yearly_breakdown[year].Year = year
                   /\ yearly_breakdown[year].ReinvestedSharesYear = Shown(ZERO)
                   /\ yearly_breakdown[year].SharesOwnedStart = Shown(initial_shares)
                   /\ yearly_breakdown[year].SharesOwnedEnd = Shown(initial_shares)
                   /\ yearly_breakdown[year].DividendsReceivedYear =
                          Shown(Mul(initial_shares, dividend_at_start(year)))
            /\ (pc = "year" /\ YearsEnded >= 1) =>
                   /\ IsZero(yr.reinvested_shares_this_year_drip)
                   /\ yr.dividends_received_this_year_drip =
                          Mul(yr.shares_at_start_of_year_drip,
                              yr.annual_dividend_per_share_at_start_of_year)

\* Two years of the calculator have ended without DRIP, at several payouts a
\* year and with a growing dividend.
C22_Witness ==
    /\ handler = "calculator" /\ pc = "year" /\ YearsEnded = 2
    /\ form.drip_enabled /= "yes"
    /\ PayoutsDict(form.payout_frequency) > 1
    /\ ~IsZero(tk.div_growth_decimal_calc)
    /\ Len(yearly_breakdown) = 2
    /\ yearly_breakdown[2].DividendsReceivedYear /= yearly_breakdown[1].DividendsReceivedYear

\* Two years of export_csv have ended without DRIP.
C22_WitnessCsv ==
    /\ handler = "export_csv" /\ pc = "year" /\ YearsEnded = 2
    /\ form.drip_enabled /= "yes"
    /\ PayoutsDict(form.payout_frequency) > 1
    /\ Len(yearly_breakdown) = 2

\* C23: the year records chain without gaps.  Year 1 starts with
\* initial_investment / current_price_calc shares, the effective price and
\* the starting dividend per share; every later year starts with the shares
\* the year before ended with and with the price and dividend per share the
\* year before grew them to; and the start-of-year values of the running year
\* stay what they were at its head through all its payout periods.
C23_YearsChain ==
    (handler = "calculator" /\ InYear) =>
        LET initial_shares == Div(form.initial_investment, tk.current_price_calc)
            price_after(k) ==
                Mul(tk.current_price_calc,
                    Pow(Add(ONE, tk.stock_price_growth_decimal_calc), k))
            dividend_after(k) ==
                Mul(tk.annual_dividend_per_share_start,
                    Pow(Add(ONE, tk.div_growth_decimal_calc), k))
        IN  /\ Len(yearly_breakdown) = YearsEnded
            /\ Len(shares_owned_with_drip_chart) = YearsEnded + 1
            /\ shares_owned_with_drip_chart[1].y = initial_shares
            /\ \A year \in DOMAIN yearly_breakdown :
                   /\ yearly_breakdown[year].SharesOwnedStart =
                          ( IF year = 1 THEN Fmt(initial_shares)
                            ELSE yearly_breakdown[year - 1].SharesOwnedEnd )
                   /\ yearly_breakdown[year].SharesOwnedStart =
                          Fmt(shares_owned_with_drip_chart[year].y)
                   /\ yearly_breakdown[year].SharesOwnedEnd =
                          Fmt(shares_owned_with_drip_chart[year + 1].y)
                   /\ yearly_breakdown[year].StockPriceStart = Fmt(price_after(year - 1))
                   /\ yearly_breakdown[year].AnnualDividendPerShare =
                          Fmt(dividend_after(year - 1))
            /\ pc \in {"payout", "yearend"} =>
                   /\ yr.year = YearsEnded + 1
                   /\ yr.shares_at_start_of_year_drip =
                          shares_owned_with_drip_chart[yr.year].y
                   /\ yr.stock_price_at_start_of_year = sim.current_stock_price_sim
                   /\ yr.stock_price_at_start_of_year = price_after(yr.year - 1)
                   /\ yr.annual_dividend_per_share_at_start_of_year =
                          sim.annual_dividend_per_share_sim
                   /\ yr.annual_dividend_per_share_at_start_of_year =
                          dividend_after(yr.year - 1)
            /\ pc = "year" =>
                   /\ sim.current_shares_drip =
                          shares_owned_with_drip_chart[YearsEnded + 1].y
                   /\ sim.current_stock_price_sim = price_after(YearsEnded)
                   /\ sim.annual_dividend_per_share_sim = dividend_after(YearsEnded)

\* The second year is at its end after several payout periods that bought
\* shares, the first year having bought shares too, under growths that are
\* not 0.
C23_Witness ==
    /\ handler = "calculator" /\ pc = "yearend" /\ yr.year = 2
    /\ form.drip_enabled = "yes" /\ yr.i >= 2
    /\ Len(yearly_breakdown) = 1
    /\ sim.current_shares_drip /= yr.shares_at_start_of_year_drip
    /\ yr.shares_at_start_of_year_drip /=
           Div(form.initial_investment, tk.current_price_calc)
    /\ ~IsZero(tk.stock_price_growth_decimal_calc)
    /\ ~IsZero(tk.div_growth_decimal_calc)

\* The entries of a calculator response, none when the request raised.
ResultsOf(h) == IF h.response.status = "200" THEN h.response.results ELSE << >>

\* The entries a calculator response holds for a ticker.
EntriesFor(h, ticker_symbol) ==
    {ResultsOf(h)[k] : k \in {n \in 1..Len(ResultsOf(h)) :
                                 ResultsOf(h)[n].ticker = ticker_symbol}}

\* The tickers two requests have both selected.
SelectedByBoth(a, b) ==
    {KeepNonBlank(a.form.tickers)[k] : k \in 1..Len(KeepNonBlank(a.form.tickers))}
    \cap {KeepNonBlank(b.form.tickers)[k] : k \in 1..Len(KeepNonBlank(b.form.tickers))}

\* C24: the result of a ticker depends on the ticker's snapshot and on the
\* request parameters only: two calculator requests with the same parameters
\* that both select a ticker answer with the same entry for it, whichever
\* other tickers each selects and in whatever order, a failing ticker before
\* it included.
C24_ResultPerTicker ==
    \A a, b \in DOMAIN history :
        \A ticker_symbol \in SelectedByBoth(history[a], history[b]) :
            EntriesFor(history[a], ticker_symbol) = EntriesFor(history[b], ticker_symbol)

\* Of two requests that were both answered with a page, the entries for a
\* ticker both selected are the same.
ServedAlike ==
    \A a, b \in DOMAIN history :
        (history[a].response.status = "200" /\ history[b].response.status = "200") =>
            \A ticker_symbol \in SelectedByBoth(history[a], history[b]) :
                /\ EntriesFor(history[a], ticker_symbol) /= {}
                /\ Cardinality(EntriesFor(history[a], ticker_symbol)) = 1
                /\ EntriesFor(history[a], ticker_symbol) =
                       EntriesFor(history[b], ticker_symbol)

\* A simulated ticker served alone and then second in a batch behind a
\* failing ticker.
ServedAlikeHappens ==
    /\ Len(history) = 2
    /\ history[1].response.status = "200" /\ history[2].response.status = "200"
    /\ Len(history[1].response.results) = 1
    /\ Len(history[2].response.results) = 2
    /\ history[1].response.results[1].error = NONE
    /\ history[2].response.results[1].error /= NONE
    /\ history[2].response.results[2].ticker = history[1].response.results[1].ticker

\* The updater is inside fetch_and_update_dashboard_stock_data.
InFetch == updater_thread.pc \in {"fetch", "acquire", "write", "release"}

\* Every call of fetch_and_update_dashboard_stock_data returns: the updater
\* is never inside a call for ever (two calls have a sleep between them).
EachFetchReturns == []<>(~InFetch)

\* The walk of the updater over STOCK_SYMBOLS: the index is that of a symbol
\* while a symbol is being fetched and slept on, and one past the last symbol
\* between two cycles.
OnASymbol ==
    /\ updater_thread.pc \in {"fetch", "acquire", "write", "release", "sleep", "cycle"}
    /\ updater_thread.pc /= "cycle" => updater_thread.i \in 1..Len(STOCK_SYMBOLS)
    /\ updater_thread.pc = "cycle" => updater_thread.i = Len(STOCK_SYMBOLS) + 1

\* One step of that walk: the index moves on by one, after the fetch of its
\* symbol has returned whatever it printed, or back to the first symbol after
\* the last one; a fetch starts only on an index that has just moved, and a
\* fetch that has returned is not started again on the same index.
InListOrder ==
    /\ updater_thread'.i /= updater_thread.i =>
           \/ /\ updater_thread.pc = "sleep"
              /\ updater_thread'.i = updater_thread.i + 1
           \/ /\ updater_thread.pc = "cycle"
              /\ updater_thread.i = Len(STOCK_SYMBOLS) + 1
              /\ updater_thread'.i = 1
    /\ (updater_thread'.pc = "fetch" /\ updater_thread.pc /= "fetch") =>
           updater_thread'.i /= updater_thread.i
    /\ (updater_thread.pc = "fetch" /\ updater_thread'.pc /= "fetch") =>
           updater_thread'.pc \in {"acquire", "sleep"}
    /\ (updater_thread.pc = "sleep" /\ updater_thread'.pc /= "sleep") =>
           updater_thread'.i = updater_thread.i + 1

\* C25: no outcome of a fetch stops the background updater.  Every cycle
\* attempts the symbols of STOCK_SYMBOLS once each in list order, the symbol
\* after a failed fetch like the symbol after a successful one, and, provided
\* every fetch call returns, every symbol is attempted infinitely often.
C25_UpdaterNeverStops ==
    /\ []OnASymbol
    /\ [][InListOrder]_vars
    /\ EachFetchReturns =>
           \A k \in 1..Len(STOCK_SYMBOLS) :
               []<><<updater_fetch /\ updater_thread.i = k>>_vars

\* A new cycle has started after a cycle in which the fetch of the first
\* symbol failed and the fetch of the last one succeeded.
C25_Witness ==
    /\ updater_thread.pc = "fetch" /\ updater_thread.i = 1
    /\ Len(latest_stock_data) = 1
    /\ latest_stock_data[1].symbol = STOCK_SYMBOLS[Len(STOCK_SYMBOLS)]
    /\ Len(STOCK_SYMBOLS) > 1

\* Every symbol is attempted infinitely often whether or not the fetch calls
\* return: this does not hold, a call can wait for the network or for the lock
\* for ever.
AttemptedForever ==
    \A k \in 1..Len(STOCK_SYMBOLS) : []<><<updater_fetch /\ updater_thread.i = k>>_vars

====
